---- MODULE Spec2Model ----
(***************************************************************************)
(* GitStory 2025: the API gateway (GitHubAPI, GitHubAPIError), the         *)
(* fetchAllData sequence and the contribution statistics of DataProcessor. *)
(*                                                                         *)
(* JavaScript runs one task at a time: an async function runs until its    *)
(* next await, and the code after an await runs when the awaited promise   *)
(* settles.  Each action below is one such uninterrupted piece of code.    *)
(***************************************************************************)
EXTENDS Integers, Sequences, FiniteSets, TLC

VARIABLES
    token,                \* GitHubAPI.token
    rateLimitRemaining,   \* GitHubAPI.rateLimitRemaining
    rateLimitReset,       \* GitHubAPI.rateLimitReset
    cache,                \* the module-level Map `cache`
    now,                  \* Date.now(), in milliseconds
    steps,                \* how many calls (setToken, request) and clock steps were made
    req,                  \* per caller: the request() invocation it is in
    out,                  \* what the step just taken gave a caller: the result of the
                          \* request() call it ended, or the setToken call it made
    lastOk,               \* history: per cache key, the last successful fetch
    fetchedWith,          \* history: per cache key, the token sent by the fetch() last stored
    pc,                   \* fetchAllData: the await it is suspended in
    page,                 \* getAllRepos / getAllEvents: the local `page`
    allItems,             \* getAllRepos / getAllEvents: the local allRepos / allEvents
    results,              \* fetchAllData: the local `results`
    progress,             \* history: the labels onProgress got in this call
    netLog,               \* history: the fetch() calls issued in this call
    failed,               \* history: the endpoints whose request threw in this call
    yearContribs,         \* calculateStats: the target year's contribution entries
    today,                \* the calendar date of `new Date()`
    stats,                \* calculateStats: its result
    spc,                  \* calculateStats: "input" before it ran, "done" after
    rawData,              \* processAll: the part of rawData the function under study reads
    runtime,              \* what the function reads from its runtime: timezone offset, clock
    processed,            \* processAll: the part of its result under study, Null before it ran
    currentSlide,         \* GitStoryApp.currentSlide
    totalSlides,          \* GitStoryApp.totalSlides
    isPlaying,            \* GitStoryApp.isPlaying
    autoAdvanceTimer,     \* GitStoryApp.autoAdvanceTimer: Null or the handle setTimeout gave
    timers,               \* the handles of the startAutoAdvance timeouts that are pending
    timerIds,             \* how many timeouts startAutoAdvance has set
    hidden,               \* document.hidden
    userData,             \* GitStoryApp.userData: Null or what fetchAllData returned
    processedData,        \* GitStoryApp.processedData: Null or what processAll returned
    loading,              \* handleFormSubmit is suspended in one of its awaits
    lastHandler           \* history: the handler or callback that ran last

apiVars == <<token, rateLimitRemaining, rateLimitReset, cache, now, steps, req, out, lastOk, fetchedWith>>

fetchVars == <<pc, page, allItems, results, progress, netLog, failed>>

statsVars == <<yearContribs, today, stats, spc>>

processVars == <<rawData, runtime, processed>>

slideVars == <<currentSlide, totalSlides, isPlaying, autoAdvanceTimer, timers, timerIds,
               hidden, userData, processedData, loading, lastHandler>>

restVars == <<statsVars, processVars, slideVars>>

vars == <<apiVars, fetchVars, statsVars, processVars, slideVars>>

----------------------------------------------------------------------------
(* Values *)

\* null / undefined
Null == [some |-> FALSE]

Some(v) == [some |-> TRUE, v |-> v]

\* const CACHE_DURATION = 5 * 60 * 1000
CACHE_DURATION == 5 * 60 * 1000

\* how many calls from outside (setToken, request) and clock steps a run makes
MaxSteps == 4

\* the direct callers of request() that run side by side
Callers == {"c1", "c2"}

\* the fetchAllData invocation, as a caller of request()
FetchCaller == "fetchAllData"

AllCallers == Callers \cup {FetchCaller}

\* the elapsed times one clock step may take: just under the cache duration,
\* and one millisecond (so that ages CACHE_DURATION - 1 and CACHE_DURATION occur)
TickSteps == {CACHE_DURATION - 1, 1}

\* a token string is a sequence of characters; " " is whitespace
IsSpace(ch) == ch = " "

\* the strings handed to setToken
TokenInputs ==
    { <<>>, <<" ">>, <<"a">>, <<" ", "b", " ">> }

\* String.prototype.trim
RECURSIVE TrimLeft(_)
TrimLeft(s) ==
    IF s # <<>> /\ IsSpace(Head(s)) THEN TrimLeft(Tail(s)) ELSE s

RECURSIVE TrimRight(_)
TrimRight(s) ==
    IF s # <<>> /\ IsSpace(s[Len(s)]) THEN TrimRight(SubSeq(s, 1, Len(s) - 1)) ELSE s

trim(s) == TrimRight(TrimLeft(s))

\* the endpoints request() is called with
Endpoint(path, p) == [path |-> path, page |-> p]

ApiEndpoints == { Endpoint("user", 0), Endpoint("rate_limit", 0) }

\* `${endpoint}:${this.token ? 'auth' : 'noauth'}`
CacheKey(endpoint, tok) ==
    [endpoint |-> endpoint, auth |-> IF tok.some /\ tok.v # <<>> THEN "auth" ELSE "noauth"]

\* a parsed JSON document (an object or an array: always truthy);
\* v tells two documents of one endpoint apart, len is its length as an array
Body(v, len) == [v |-> v, len |-> len]

ApiBodies == { Body("x", 1), Body("y", 1) }

\* HTTP statuses the server answers with; response.ok is 200..299
Statuses == {200, 401, 403, 404, 500}

ResponseOk(status) == status >= 200 /\ status <= 299

\* the header pairs <<X-RateLimit-Remaining, X-RateLimit-Reset>> a response
\* carries: each absent, or a number
ResponseHeaders == { <<Null, Null>>, <<Some(0), Some(1700)>>, <<Some(59), Some(1700)>> }

\* parseInt(response.headers.get(...) || '0')
ParseHeader(h) == IF h.some THEN h.v ELSE 0

----------------------------------------------------------------------------
(* GitHubAPIError *)

GitHubAPIError(message, status, remaining) ==
    [name |-> "GitHubAPIError", message |-> message, status |-> status,
     rateLimitRemaining |-> remaining]

isNotFound(err) == err.status = 404

\* this.status === 403 && this.rateLimitRemaining === 0
isRateLimited_statusOnly(err) == err.status = 403

isRateLimited(err) ==
    err.status = 403 /\ err.rateLimitRemaining = Some(0)

isUnauthorized(err) == err.status = 401

getUserFriendlyMessage(err) ==
    IF isNotFound(err) THEN "User not found. Please check the username and try again."
    ELSE IF isRateLimited(err)
         THEN "Rate limit exceeded. Please add a GitHub token or wait a moment."
    ELSE IF isUnauthorized(err)
         THEN "Invalid GitHub token. Please check your token and try again."
    ELSE "GitHub API error"

----------------------------------------------------------------------------
(* The cache: a Map from cache key to {data, timestamp} *)

Entry(data, timestamp) == [data |-> data, timestamp |-> timestamp]

EmptyCache == [k \in {} |-> Entry(0, 0)]

\* cache.get(key) is defined
Has(c, key) == key \in DOMAIN c

\* cached && Date.now() - cached.timestamp < CACHE_DURATION
Fresh_inclusive(c, key, t) == Has(c, key) /\ t - c[key].timestamp <= CACHE_DURATION

Fresh(c, key, t) == Has(c, key) /\ t - c[key].timestamp < CACHE_DURATION

\* getFromCache: the value returned (null on a miss) ...
getFromCache(c, key, t) ==
    IF Fresh(c, key, t) THEN Some(c[key].data) ELSE Null

\* getFromCache that leaves an expired entry in the cache
CacheAfterGet_keepStale(c, key, t) == c

\* ... and the cache it leaves: cache.delete(key) unless the entry was returned
CacheAfterGet(c, key, t) ==
    IF Fresh(c, key, t) THEN c ELSE [k \in DOMAIN c \ {key} |-> c[k]]

\* cache.set(key, {data, timestamp: Date.now()})
setCache(c, key, data, t) ==
    [k \in DOMAIN c \cup {key} |-> IF k = key THEN Entry(data, t) ELSE c[k]]

----------------------------------------------------------------------------
(* The state of one request() invocation *)

\* a caller that is not inside request()
Idle == [st |-> "idle"]

NoResult == [kind |-> "none"]

\* request(endpoint) returned data to caller; net tells whether it called fetch()
Returned(endpoint, data, net) ==
    [kind |-> "ok", endpoint |-> endpoint, data |-> data, net |-> net]

\* request(endpoint) threw err; http is the status of the response, if there was one
Threw(endpoint, err, http) ==
    [kind |-> "err", endpoint |-> endpoint, error |-> err, http |-> http]

\* suspended in `await fetch(url, {headers})`: sent is the token of getHeaders()
AwaitFetch(endpoint, key, sent) ==
    [st |-> "fetch", endpoint |-> endpoint, key |-> key, sent |-> sent]

\* suspended in `await response.json()` of an ok (or, ok = FALSE, a failed) response
AwaitJson(r, ok, status) ==
    [st |-> "json", endpoint |-> r.endpoint, key |-> r.key, sent |-> r.sent,
     ok |-> ok, status |-> status]

\* setToken(arg) ran; cleared tells whether the cache held an entry before it
DidSetToken(arg, cleared) == [kind |-> "setToken", arg |-> arg, cleared |-> cleared]

InitApi ==
    /\ token = Null
    /\ rateLimitRemaining = Null
    /\ rateLimitReset = Null
    /\ cache = EmptyCache
    /\ now = 0
    /\ steps = 0
    /\ req = [c \in AllCallers |-> Idle]
    /\ out = NoResult
    /\ lastOk = EmptyCache
    /\ fetchedWith = EmptyCache

----------------------------------------------------------------------------
(* setToken *)

\* the effect of setToken(t) that keeps the cache
setTokenEffect_keepCache(t, tok, c) ==
    IF t # <<>> /\ trim(t) # <<>> THEN <<Some(trim(t)), c>> ELSE <<tok, c>>

\* if (token && token.trim()) { this.token = token.trim(); cache.clear(); }
setTokenEffect(t, tok, c) ==
    IF t # <<>> /\ trim(t) # <<>> THEN <<Some(trim(t)), EmptyCache>> ELSE <<tok, c>>

setToken(t) ==
    /\ steps < MaxSteps
    /\ steps' = steps + 1
    /\ token' = setTokenEffect(t, token, cache)[1]
    /\ cache' = setTokenEffect(t, token, cache)[2]
    /\ lastOk' = EmptyCache
    /\ out' = DidSetToken(t, cache # EmptyCache)
    /\ UNCHANGED <<rateLimitRemaining, rateLimitReset, now, req, fetchedWith>>

----------------------------------------------------------------------------
(* request *)

\* request(endpoint) up to its first await: the cache lookup, and on a miss the
\* call of fetch() with the headers of the current token
requestCall(endpoint, tok, c, t) ==
    LET key == CacheKey(endpoint, tok)
        cached == getFromCache(c, key, t)
    IN  IF cached.some
        THEN [hit |-> TRUE, data |-> cached.v]
        ELSE [hit |-> FALSE, await |-> AwaitFetch(endpoint, key, tok)]

\* the effect of calling request(endpoint) on req, out and cache
requestCore(caller, endpoint) ==
    /\ LET call == requestCall(endpoint, token, cache, now)
       IN  IF call.hit
           THEN /\ out' = Returned(endpoint, call.data, FALSE)
                /\ req' = req
           ELSE /\ req' = [req EXCEPT ![caller] = call.await]
                /\ out' = NoResult
    /\ cache' = CacheAfterGet(cache, CacheKey(endpoint, token), now)

\* a direct call of request(endpoint)
request(caller, endpoint) ==
    /\ req[caller].st = "idle"
    /\ steps < MaxSteps
    /\ steps' = steps + 1
    /\ requestCore(caller, endpoint)
    /\ UNCHANGED <<token, rateLimitRemaining, rateLimitReset, now, lastOk, fetchedWith>>

\* fetch() rejects: catch (error) { throw new GitHubAPIError(error.message, 0, ...) }
fetchRejects(caller) ==
    /\ req[caller].st = "fetch"
    /\ out' = Threw(req[caller].endpoint,
                    GitHubAPIError("network", 0, rateLimitRemaining), Null)
    /\ req' = [req EXCEPT ![caller] = Idle]
    /\ UNCHANGED <<token, rateLimitRemaining, rateLimitReset, cache, now, steps,
                   lastOk, fetchedWith>>

\* fetch() resolves with a response: the rate-limit headers are recorded, then
\* the body is awaited (response.json())
fetchResolves(caller, status, headers) ==
    /\ req[caller].st = "fetch"
    /\ rateLimitRemaining' = Some(ParseHeader(headers[1]))
    /\ rateLimitReset' = Some(ParseHeader(headers[2]))
    /\ req' = [req EXCEPT ![caller] = AwaitJson(req[caller], ResponseOk(status), status)]
    /\ out' = NoResult
    /\ UNCHANGED <<token, cache, now, steps, lastOk, fetchedWith>>

\* the error thrown for a response that is not ok, once its body was read:
\* error.message || `HTTP ${response.status}`
HttpError(status, hasMessage, remaining) ==
    GitHubAPIError(IF hasMessage THEN "message" ELSE "HTTP", status, remaining)

\* !response.ok: response.json().catch(() => ({})) settles, the error is thrown
errorBodySettles(caller, hasMessage) ==
    /\ req[caller].st = "json"
    /\ ~req[caller].ok
    /\ out' = Threw(req[caller].endpoint,
                    HttpError(req[caller].status, hasMessage, rateLimitRemaining),
                    Some(req[caller].status))
    /\ req' = [req EXCEPT ![caller] = Idle]
    /\ UNCHANGED <<token, rateLimitRemaining, rateLimitReset, cache, now, steps,
                   lastOk, fetchedWith>>

\* response.ok and response.json() resolves: setCache(cacheKey, data); return data
bodyResolves(caller, data) ==
    /\ req[caller].st = "json"
    /\ req[caller].ok
    /\ cache' = setCache(cache, req[caller].key, data, now)
    /\ lastOk' = setCache(lastOk, req[caller].key, data, now)
    /\ fetchedWith' = [k \in DOMAIN fetchedWith \cup {req[caller].key} |->
                          IF k = req[caller].key THEN req[caller].sent ELSE fetchedWith[k]]
    /\ out' = Returned(req[caller].endpoint, data, TRUE)
    /\ req' = [req EXCEPT ![caller] = Idle]
    /\ UNCHANGED <<token, rateLimitRemaining, rateLimitReset, now, steps>>

\* response.ok and response.json() rejects (the body is no JSON): the catch
\* wraps the SyntaxError with status 0
bodyRejects(caller) ==
    /\ req[caller].st = "json"
    /\ req[caller].ok
    /\ out' = Threw(req[caller].endpoint,
                    GitHubAPIError("syntax", 0, rateLimitRemaining), Null)
    /\ req' = [req EXCEPT ![caller] = Idle]
    /\ UNCHANGED <<token, rateLimitRemaining, rateLimitReset, cache, now, steps,
                   lastOk, fetchedWith>>

\* time passes
Tick(d) ==
    /\ steps < MaxSteps
    /\ steps' = steps + 1
    /\ now' = now + d
    /\ out' = NoResult
    /\ UNCHANGED <<token, rateLimitRemaining, rateLimitReset, cache, req, lastOk, fetchedWith>>

----------------------------------------------------------------------------
(* fetchAllData, getAllRepos, getAllEvents, getContributions *)

\* const per_page = 100 (getAllRepos); per_page=100 and `events.length < 100`
\* (getEvents, getAllEvents)
per_page == 100

\* if (page > 10) break
MaxRepoPages == 10

\* for (let page = 1; page <= 3; page++)
MaxEventPages == 3

userEndpoint == Endpoint("user", 0)

reposEndpoint(p) == Endpoint("repos", p)

\* getEvents that asks for the pages from the last one down
eventsEndpoint_descending(p) == Endpoint("events", MaxEventPages + 1 - p)

eventsEndpoint(p) == Endpoint("events", p)

\* `${CONTRIBUTIONS_API}/${username}?y=${year}`
contributionsEndpoint == Endpoint("contributions", 0)

\* `contributions:${username}:${year}`: a key no request() key equals
contributionsKey == [endpoint |-> contributionsEndpoint, auth |-> "none"]

\* the lengths of the pages the server answers with (it honours per_page)
PageLens == {0, 42, per_page}

\* the bodies the server answers a fetchAllData request with: a page of a
\* list (tagged with its page number), or one document
FetchBodies(endpoint) ==
    IF endpoint.path \in {"repos", "events"}
    THEN { Body(endpoint.page, n) : n \in PageLens }
    ELSE { Body(0, 1) }

\* { total: { [year]: 0 }, contributions: [] }
ZeroContributions == [total |-> 0, contributions |-> <<>>]

\* aggregateLanguages(repos): the aggregate of these repositories
aggregateLanguages(repos) == [of |-> repos]

NoResults ==
    [user |-> Null, repos |-> <<>>, events |-> <<>>, contributions |-> Null,
     languages |-> Null, error |-> Null]

InitFetch ==
    /\ pc = "idle"
    /\ page = 0
    /\ allItems = <<>>
    /\ results = NoResults
    /\ progress = <<>>
    /\ netLog = <<>>
    /\ failed = {}

\* the number of items of a list of pages
RECURSIVE Count(_)
Count(pages) ==
    IF pages = <<>> THEN 0 ELSE Head(pages).len + Count(Tail(pages))

\* how many calls from outside (setToken, fetchAllData) and clock steps a run
\* of fetchAllData's caller makes
MaxFetchSteps == 2

\* fetchAllData is not running: its caller (handleFormSubmit) sets the token
\* before it calls fetchAllData
BetweenRuns == pc \in {"idle", "returned", "rejected"} /\ steps < MaxFetchSteps

\* the awaited call of fetchAllData has settled and its continuation has not
\* run yet; it runs before any other task
Pending == pc \in {"user", "repos", "events", "contributions"} /\ out.kind \in {"ok", "err"}

\* `await this.request(endpoint)` made by fetchAllData
awaitRequest(endpoint) ==
    /\ requestCore(FetchCaller, endpoint)
    /\ netLog' = IF requestCall(endpoint, token, cache, now).hit
                 THEN netLog ELSE Append(netLog, endpoint)

\* fetchAllData(username, onProgress) up to its first await (getUser)
fetchAllData ==
    /\ BetweenRuns
    /\ steps' = steps + 1
    /\ results' = NoResults
    /\ progress' = <<"Fetching profile...">>
    /\ pc' = "user"
    /\ page' = 0
    /\ allItems' = <<>>
    /\ requestCore(FetchCaller, userEndpoint)
    /\ netLog' = IF requestCall(userEndpoint, token, cache, now).hit
                 THEN <<>> ELSE <<userEndpoint>>
    /\ failed' = {}
    /\ UNCHANGED <<token, rateLimitRemaining, rateLimitReset, now, lastOk, fetchedWith>>

\* how fetchAllData ends in its catch: throw error
rejectOutcome_returns == "returned"

rejectOutcome == "rejected"

\* catch (error) { results.error = error; throw error; }
rejectWith(err) ==
    /\ pc' = rejectOutcome
    /\ results' = [results EXCEPT !.error = Some(err)]
    /\ out' = NoResult
    /\ failed' = failed \cup {out.endpoint}
    /\ UNCHANGED <<req, cache, page, allItems, progress, netLog>>

\* results.user = await this.getUser(username), then the first page of getAllRepos
afterGetUser ==
    /\ pc = "user"
    /\ Pending
    /\ IF out.kind = "err"
       THEN rejectWith(out.error)
       ELSE /\ results' = [results EXCEPT !.user = Some(out.data)]
            /\ progress' = Append(progress, "Loading repositories...")
            /\ pc' = "repos"
            /\ page' = 1
            /\ allItems' = <<>>
            /\ failed' = failed
            /\ awaitRequest(reposEndpoint(1))
    /\ UNCHANGED <<token, rateLimitRemaining, rateLimitReset, now, steps, lastOk, fetchedWith>>

\* getAllRepos stops after this page: repos.length < per_page, or page > 10
\* after page++
reposDone_noCap(body, p) == body.len < per_page

reposDone(body, p) == body.len < per_page \/ p + 1 > MaxRepoPages

\* a page of getAllRepos has arrived (or failed): the rest of the loop body,
\* then the next page, or results.repos and the first page of getAllEvents
afterGetRepos ==
    /\ pc = "repos"
    /\ Pending
    /\ IF out.kind = "err"
       THEN rejectWith(out.error)
       ELSE LET all == Append(allItems, out.data)
            IN  /\ failed' = failed
                /\ IF reposDone(out.data, page)
                   THEN /\ results' = [results EXCEPT !.repos = all]
                        /\ progress' = Append(progress, "Analyzing activity...")
                        /\ pc' = "events"
                        /\ page' = 1
                        /\ allItems' = <<>>
                        /\ awaitRequest(eventsEndpoint(1))
                   ELSE /\ page' = page + 1
                        /\ allItems' = all
                        /\ awaitRequest(reposEndpoint(page + 1))
                        /\ UNCHANGED <<pc, results, progress>>
    /\ UNCHANGED <<token, rateLimitRemaining, rateLimitReset, now, steps, lastOk, fetchedWith>>

\* getContributions(username, year) up to its first await: the cache lookup,
\* and on a miss the call of fetch()
getContributions ==
    LET cached == getFromCache(cache, contributionsKey, now)
    IN  /\ IF cached.some
           THEN /\ out' = Returned(contributionsEndpoint, cached.v, FALSE)
                /\ req' = req
                /\ netLog' = netLog
           ELSE /\ out' = NoResult
                /\ req' = [req EXCEPT ![FetchCaller] =
                              [st |-> "cfetch", key |-> contributionsKey]]
                /\ netLog' = Append(netLog, contributionsEndpoint)
        /\ cache' = CacheAfterGet(cache, contributionsKey, now)

\* getAllEvents stops after this page: catch (e) { break }, events.length < 100,
\* or page <= 3 fails after page++
eventsDone_rethrow(r, p) == r.kind = "ok" /\ (r.data.len < per_page \/ p + 1 > MaxEventPages)

eventsDone_noCap(r, p) == r.kind = "err" \/ r.data.len < per_page

eventsDone(r, p) ==
    r.kind = "err" \/ r.data.len < per_page \/ p + 1 > MaxEventPages

\* a page of getAllEvents has arrived or failed: the rest of the loop body,
\* then the next page, or results.events and getContributions
afterGetEvents ==
    /\ pc = "events"
    /\ Pending
    /\ LET all == IF out.kind = "err" THEN allItems ELSE Append(allItems, out.data)
       IN  IF eventsDone(out, page)
           THEN /\ results' = [results EXCEPT !.events = all]
                /\ progress' = Append(progress, "Fetching contributions...")
                /\ pc' = "contributions"
                /\ page' = 0
                /\ allItems' = <<>>
                /\ failed' = IF out.kind = "err" THEN failed \cup {out.endpoint} ELSE failed
                /\ getContributions
           ELSE IF out.kind = "err"
           THEN rejectWith(out.error)
           ELSE /\ page' = page + 1
                /\ allItems' = all
                /\ failed' = failed
                /\ awaitRequest(eventsEndpoint(page + 1))
                /\ UNCHANGED <<pc, results, progress>>
    /\ UNCHANGED <<token, rateLimitRemaining, rateLimitReset, now, steps, lastOk, fetchedWith>>

\* getContributions: fetch() rejects, and the catch returns the zeroed structure
contributionsFetchRejects ==
    /\ req[FetchCaller].st = "cfetch"
    /\ out' = Returned(contributionsEndpoint, ZeroContributions, TRUE)
    /\ req' = [req EXCEPT ![FetchCaller] = Idle]
    /\ UNCHANGED <<token, rateLimitRemaining, rateLimitReset, cache, now, steps, lastOk, fetchedWith>>

\* what getContributions does with a response that is not ok:
\* throw new Error(...), caught by its own catch
contributionsNotOk_throws == Threw(contributionsEndpoint, GitHubAPIError("contributions", 0, Null), Null)

contributionsNotOk == Returned(contributionsEndpoint, ZeroContributions, TRUE)

\* getContributions: fetch() resolves; a response that is not ok gives the
\* zeroed structure, an ok one is read (response.json())
contributionsFetchResolves(status) ==
    /\ req[FetchCaller].st = "cfetch"
    /\ IF ResponseOk(status)
       THEN /\ req' = [req EXCEPT ![FetchCaller] = [st |-> "cjson", key |-> contributionsKey]]
            /\ out' = NoResult
       ELSE /\ req' = [req EXCEPT ![FetchCaller] = Idle]
            /\ out' = contributionsNotOk
    /\ UNCHANGED <<token, rateLimitRemaining, rateLimitReset, cache, now, steps, lastOk, fetchedWith>>

\* getContributions: response.json() resolves: setCache(cacheKey, data); return data
contributionsBodyResolves(data) ==
    /\ req[FetchCaller].st = "cjson"
    /\ cache' = setCache(cache, req[FetchCaller].key, data, now)
    /\ out' = Returned(contributionsEndpoint, data, TRUE)
    /\ req' = [req EXCEPT ![FetchCaller] = Idle]
    /\ UNCHANGED <<token, rateLimitRemaining, rateLimitReset, now, steps, lastOk, fetchedWith>>

\* getContributions: response.json() rejects, and the catch returns the zeroed structure
contributionsBodyRejects ==
    /\ req[FetchCaller].st = "cjson"
    /\ out' = Returned(contributionsEndpoint, ZeroContributions, TRUE)
    /\ req' = [req EXCEPT ![FetchCaller] = Idle]
    /\ UNCHANGED <<token, rateLimitRemaining, rateLimitReset, cache, now, steps, lastOk, fetchedWith>>

\* results.contributions = await this.getContributions(...), aggregateLanguages,
\* the last two onProgress calls and return results
afterGetContributions ==
    /\ pc = "contributions"
    /\ Pending
    /\ IF out.kind = "err"
       THEN rejectWith(out.error)
       ELSE /\ results' = [results EXCEPT !.contributions = Some(out.data),
                                          !.languages = Some(aggregateLanguages(results.repos))]
            /\ progress' = progress \o <<"Processing languages...", "Complete!">>
            /\ pc' = "returned"
            /\ out' = NoResult
            /\ UNCHANGED <<req, cache, page, allItems, netLog, failed>>
    /\ UNCHANGED <<token, rateLimitRemaining, rateLimitReset, now, steps, lastOk, fetchedWith>>

\* the network answers the request() call fetchAllData is suspended in
FetchRequestSettles ==
    \/ fetchRejects(FetchCaller)
    \/ \E s \in Statuses, h \in ResponseHeaders : fetchResolves(FetchCaller, s, h)
    \/ \E m \in BOOLEAN : errorBodySettles(FetchCaller, m)
    \/ /\ req[FetchCaller].st = "json"
       /\ \E b \in FetchBodies(req[FetchCaller].endpoint) : bodyResolves(FetchCaller, b)
    \/ bodyRejects(FetchCaller)

NextFetch ==
    \/ fetchAllData /\ UNCHANGED restVars
    \/ FetchRequestSettles /\ UNCHANGED <<fetchVars, restVars>>
    \/ afterGetUser /\ UNCHANGED restVars
    \/ afterGetRepos /\ UNCHANGED restVars
    \/ afterGetEvents /\ UNCHANGED restVars
    \/ contributionsFetchRejects /\ UNCHANGED <<fetchVars, restVars>>
    \/ \E s \in Statuses : contributionsFetchResolves(s) /\ UNCHANGED <<fetchVars, restVars>>
    \/ contributionsBodyResolves(Body("x", 1)) /\ UNCHANGED <<fetchVars, restVars>>
    \/ contributionsBodyRejects /\ UNCHANGED <<fetchVars, restVars>>
    \/ afterGetContributions /\ UNCHANGED restVars
    \/ \E t \in TokenInputs : BetweenRuns /\ setToken(t) /\ UNCHANGED <<fetchVars, restVars>>
    \/ \E d \in TickSteps : BetweenRuns /\ Tick(d) /\ UNCHANGED <<fetchVars, restVars>>

----------------------------------------------------------------------------
(* DataProcessor: the streaks of calculateStats *)

\* a calendar date of the target year, as the ISO string "YYYY-MM-DD" gives it:
\* <<month, day>>
DaysInMonth == <<31, 28, 31, 30, 31, 30, 31, 31, 30, 31, 30, 31>>

\* a.date <= b.date on ISO strings: character by character, so month first
StringLeq(a, b) == a[1] < b[1] \/ (a[1] = b[1] /\ a[2] <= b[2])

\* new Date(date): the time value of midnight UTC of that date, in days since
\* the last day of the year before
RECURSIVE DaysBeforeMonth(_)
DaysBeforeMonth(m) ==
    IF m = 1 THEN 0 ELSE DaysInMonth[m - 1] + DaysBeforeMonth(m - 1)

DateValue(date) == DaysBeforeMonth(date[1]) + date[2]

\* the comparators of the two sorts: new Date(a.date) - new Date(b.date), and
\* new Date(b.date) - new Date(a.date)
Ascending(a, b) == DateValue(a.date) - DateValue(b.date)

Descending(a, b) == DateValue(b.date) - DateValue(a.date)

Compare(order, a, b) == IF order = "ascending" THEN Ascending(a, b) ELSE Descending(a, b)

\* Array.prototype.sort with a comparator: a stable sort, x goes before the
\* first element the comparator puts it before
RECURSIVE Insert(_, _, _)
Insert(x, sorted, order) ==
    IF sorted = <<>> THEN <<x>>
    ELSE IF Compare(order, x, Head(sorted)) < 0 THEN <<x>> \o sorted
    ELSE <<Head(sorted)>> \o Insert(x, Tail(sorted), order)

RECURSIVE SortBy(_, _)
SortBy(list, order) ==
    IF list = <<>> THEN <<>>
    ELSE Insert(list[Len(list)], SortBy(SubSeq(list, 1, Len(list) - 1), order), order)

Max(a, b) == IF a >= b THEN a ELSE b

\* the loop of calculateLongestStreak over the sorted entries: <<maxStreak, currentStreak>>
RECURSIVE LongestScan(_, _, _)
LongestScan(sorted, maxStreak, currentStreak) ==
    IF sorted = <<>> THEN <<maxStreak, currentStreak>>
    ELSE IF Head(sorted).count > 0
         THEN LongestScan(Tail(sorted), Max(maxStreak, currentStreak + 1), currentStreak + 1)
         ELSE LongestScan(Tail(sorted), maxStreak, 0)

\* calculateLongestStreak that returns the running streak instead of the maximum
calculateLongestStreak_lastRun(list) ==
    LongestScan(SortBy(list, "ascending"), 0, 0)[2]

calculateLongestStreak(list) ==
    LongestScan(SortBy(list, "ascending"), 0, 0)[1]

\* .filter(c => c.date <= today)
RECURSIVE UpTo(_, _)
UpTo(list, day) ==
    IF list = <<>> THEN <<>>
    ELSE IF StringLeq(Head(list).date, day) THEN <<Head(list)>> \o UpTo(Tail(list), day)
    ELSE UpTo(Tail(list), day)

\* the loop of calculateCurrentStreak: the leading entries with count > 0
RECURSIVE LeadingActive(_)
LeadingActive(sorted) ==
    IF sorted = <<>> \/ Head(sorted).count <= 0 THEN 0
    ELSE 1 + LeadingActive(Tail(sorted))

calculateCurrentStreak(list, day) ==
    LeadingActive(SortBy(UpTo(list, day), "descending"))

\* the longest list of entries
MaxLen == 3

\* the dates of the entries: four consecutive days across a month's end
EntryDates == { <<1, 30>>, <<1, 31>>, <<2, 1>>, <<2, 2>> }

\* the dates `today` is drawn from: the days of the entries, one before, one after
TodayDates == EntryDates \cup { <<1, 29>>, <<2, 3>> }

EntryCounts == {0, 2, 5}

ContributionEntries == [date : EntryDates, count : EntryCounts]

\* the lists of entries the contributions service gives: one entry per date,
\* in any order, days may be missing
ContributionLists ==
    { list \in UNION { [1..n -> ContributionEntries] : n \in 0..MaxLen } :
        \A i, j \in 1..Len(list) : i # j => list[i].date # list[j].date }

NoStats == [longestStreak |-> 0, currentStreak |-> 0]

InitStatsIdle ==
    /\ yearContribs = <<>>
    /\ today = <<1, 29>>
    /\ stats = NoStats
    /\ spc = "idle"

InitStats ==
    /\ yearContribs \in ContributionLists
    /\ today \in TodayDates
    /\ stats = NoStats
    /\ spc = "input"

\* calculateStats: longestStreak and currentStreak
calculateStats ==
    /\ spc = "input"
    /\ stats' = [longestStreak |-> calculateLongestStreak(yearContribs),
                 currentStreak |-> calculateCurrentStreak(yearContribs, today)]
    /\ spc' = "done"
    /\ UNCHANGED <<yearContribs, today>>

\* processAll was not called
InitProcessIdle ==
    /\ rawData = Null
    /\ runtime = Null
    /\ processed = Null

\* the GitStoryApp constructor
InitApp ==
    /\ currentSlide = 0
    /\ totalSlides = 0
    /\ isPlaying = FALSE
    /\ autoAdvanceTimer = Null
    /\ timers = {}
    /\ timerIds = 0
    /\ hidden = FALSE
    /\ userData = Null
    /\ processedData = Null
    /\ loading = FALSE
    /\ lastHandler = "constructor"

\* everything but the DataProcessor call under study
InitOthers == InitApi /\ InitFetch /\ InitStatsIdle /\ InitApp

otherVars == <<apiVars, fetchVars, statsVars, slideVars>>

----------------------------------------------------------------------------
(* Specifications *)

\* the gateway under direct calls of request and setToken
Init == InitApi /\ InitFetch /\ InitStatsIdle /\ InitProcessIdle /\ InitApp

Next ==
    \/ \E t \in TokenInputs : setToken(t) /\ UNCHANGED <<fetchVars, restVars>>
    \/ \E c \in Callers, e \in ApiEndpoints : request(c, e) /\ UNCHANGED <<fetchVars, restVars>>
    \/ \E c \in Callers : fetchRejects(c) /\ UNCHANGED <<fetchVars, restVars>>
    \/ \E c \in Callers, s \in Statuses, h \in ResponseHeaders :
          fetchResolves(c, s, h) /\ UNCHANGED <<fetchVars, restVars>>
    \/ \E c \in Callers, m \in BOOLEAN : errorBodySettles(c, m) /\ UNCHANGED <<fetchVars, restVars>>
    \/ \E c \in Callers, b \in ApiBodies : bodyResolves(c, b) /\ UNCHANGED <<fetchVars, restVars>>
    \/ \E c \in Callers : bodyRejects(c) /\ UNCHANGED <<fetchVars, restVars>>
    \/ \E d \in TickSteps : Tick(d) /\ UNCHANGED <<fetchVars, restVars>>

Spec == Init /\ [][Next]_vars

\* one caller running fetchAllData, again and again
SpecFetch == Init /\ [][NextFetch]_vars

\* calculateStats on every list of entries and every value of today
InitStatsInputs == InitApi /\ InitFetch /\ InitStats /\ InitProcessIdle /\ InitApp

NextStats == calculateStats /\ UNCHANGED <<apiVars, fetchVars, processVars, slideVars>>

SpecStats == InitStatsInputs /\ [][NextStats]_vars

----------------------------------------------------------------------------
(* Claims about request, setToken and GitHubAPIError *)

\* the step is a call request(endpoint): it either returns from the cache at
\* once or suspends a caller in fetch()
RequestCalled(endpoint) ==
    /\ steps' = steps + 1
    /\ now' = now
    /\ out'.kind # "setToken"
    /\ IF out'.kind = "ok"
       THEN out'.endpoint = endpoint
       ELSE \E c \in Callers :
               req[c].st = "idle" /\ req'[c].st = "fetch" /\ req'[c].endpoint = endpoint

\* the step suspends a caller in fetch(): a network call is issued
FetchIssued ==
    \E c \in Callers : req[c].st # "fetch" /\ req'[c].st = "fetch"

\* a request for endpoint that finds a success of the same cache key less than
\* CACHE_DURATION old (and no setToken since) returns its body from the cache
C1_FreshHit ==
    \A e \in ApiEndpoints :
        LET key == CacheKey(e, token)
        IN  (RequestCalled(e) /\ Has(lastOk, key)
                /\ now - lastOk[key].timestamp < CACHE_DURATION)
            => /\ out' = Returned(e, lastOk[key].data, FALSE)
               /\ ~FetchIssued
               /\ rateLimitRemaining' = rateLimitRemaining
               /\ rateLimitReset' = rateLimitReset

\* a request for endpoint that finds an entry CACHE_DURATION old or older drops
\* it and calls fetch()
C1_StaleMiss ==
    \A e \in ApiEndpoints :
        LET key == CacheKey(e, token)
        IN  (RequestCalled(e) /\ Has(cache, key)
                /\ now - cache[key].timestamp >= CACHE_DURATION)
            => /\ out'.kind # "ok"
               /\ FetchIssued
               /\ ~Has(cache', key)

\* C1: a request whose endpoint was fetched successfully under the same auth
\* state less than 5 minutes ago, with no setToken since, returns the stored
\* body without a network call and leaves the rate-limit fields alone; an entry
\* that is 5 minutes old or older is never returned: the read drops it and a
\* network call is issued.
C1_CacheHitWithinDuration ==
    [][C1_FreshHit /\ C1_StaleMiss]_vars

\* a cache hit on an entry that is one millisecond short of CACHE_DURATION old
C1_Witness ==
    /\ out.kind = "ok"
    /\ ~out.net
    /\ Has(lastOk, CacheKey(out.endpoint, token))
    /\ now - lastOk[CacheKey(out.endpoint, token)].timestamp = CACHE_DURATION - 1

\* every fetch() carries the token that is current when request() is called
SendsCurrentToken ==
    \A c \in Callers :
        (req[c].st = "idle" /\ req'[c].st = "fetch") => req'[c].sent = token

\* the token a request sends: getHeaders() sets Authorization only for a
\* truthy token, so null and the empty string both send none
SentToken(tok) == IF tok.some THEN tok.v ELSE <<>>

\* C2 as stated: after setToken(arg), for every string arg, the token sent
\* is trim(arg) and the cache is empty.
C2_SetTokenEveryString ==
    [][out'.kind = "setToken"
         => (SentToken(token') = trim(out'.arg) /\ cache' = EmptyCache)]_vars

\* C2 amended: after setToken(arg) with arg non-blank (not empty after trim),
\* the token is trim(arg) and the cache is empty, and every later fetch sends
\* the current token; setToken of an empty or all-whitespace string changes
\* neither the token nor the cache.
C2_SetTokenNonBlank ==
    [][/\ out'.kind = "setToken"
          => IF trim(out'.arg) # <<>>
             THEN SentToken(token') = trim(out'.arg) /\ cache' = EmptyCache
             ELSE token' = token /\ cache' = cache
       /\ SendsCurrentToken]_vars

\* setToken of a string with surrounding whitespace has just emptied a cache
\* that held an entry
C2_Witness ==
    /\ out.kind = "setToken"
    /\ out.cleared
    /\ out.arg # trim(out.arg)
    /\ token = Some(trim(out.arg))
    /\ cache = EmptyCache

\* the class of an error, as the taxonomy defines it
ErrorClass(status, remaining) ==
    CASE status = 404 -> "NotFound"
      [] status = 403 /\ remaining = Some(0) -> "RateLimited"
      [] status = 401 -> "Unauthorized"
      [] OTHER -> "APIError"

ClassMessage(class) ==
    CASE class = "NotFound" -> "User not found. Please check the username and try again."
      [] class = "RateLimited"
           -> "Rate limit exceeded. Please add a GitHub token or wait a moment."
      [] class = "Unauthorized"
           -> "Invalid GitHub token. Please check your token and try again."
      [] OTHER -> "GitHub API error"

\* C3: every failure of request is a GitHubAPIError that carries the status of
\* the HTTP response (0 when there was none) and the rate-limit-remaining value
\* known when it is thrown; it is NotFound iff status = 404, RateLimited iff
\* status = 403 and remaining = 0, Unauthorized iff status = 401, at most one
\* of the three, and getUserFriendlyMessage gives that class's message.
C3_ErrorTaxonomy ==
    out.kind = "err" =>
        LET err == out.error
            class == ErrorClass(IF out.http.some THEN out.http.v ELSE 0, rateLimitRemaining)
        IN  /\ err.name = "GitHubAPIError"
            /\ err.status = (IF out.http.some THEN out.http.v ELSE 0)
            /\ err.rateLimitRemaining = rateLimitRemaining
            /\ isNotFound(err) <=> class = "NotFound"
            /\ isRateLimited(err) <=> class = "RateLimited"
            /\ isUnauthorized(err) <=> class = "Unauthorized"
            /\ Cardinality({p \in {"nf", "rl", "un"} :
                              \/ p = "nf" /\ isNotFound(err)
                              \/ p = "rl" /\ isRateLimited(err)
                              \/ p = "un" /\ isUnauthorized(err)}) <= 1
            /\ getUserFriendlyMessage(err) = ClassMessage(class)

\* a 403 answered without quota left has just been thrown as RateLimited
C3_Witness ==
    /\ out.kind = "err"
    /\ out.http = Some(403)
    /\ isRateLimited(out.error)
    /\ ~isNotFound(out.error)

----------------------------------------------------------------------------
(* Claims about fetchAllData and its stages *)

\* the request endpoints of a log, in order, that belong to path
RECURSIVE OfPath(_, _)
OfPath(log, path) ==
    IF log = <<>> THEN <<>>
    ELSE IF Head(log).path = path THEN <<Head(log)>> \o OfPath(Tail(log), path)
    ELSE OfPath(Tail(log), path)

ProfileOrReposFailed ==
    pc \in {"user", "repos"} /\ out.kind = "err"

LateStage(endpoint) == endpoint.path \in {"events", "contributions"}

\* C4: when the profile request or a repository page request fails,
\* fetchAllData rejects with that failure and returns no bundle; after that it
\* issues no request (in particular none of a later stage: further repository
\* pages, events, contributions) and calls onProgress no more.
C4_ProfileOrReposFailureAborts ==
    [][/\ ProfileOrReposFailed
          => /\ pc' = "rejected"
             /\ results'.error = Some(out.error)
             /\ netLog' = netLog
             /\ progress' = progress
             /\ req'[FetchCaller].st = "idle"
       /\ (pc = "rejected" /\ pc' = "rejected")
          => /\ netLog' = netLog
             /\ progress' = progress
             /\ req'[FetchCaller].st = "idle"
       /\ pc' = "rejected"
          => /\ results'.contributions = Null
             /\ results'.events = <<>>
             /\ \A i \in 1..Len(netLog') : ~LateStage(netLog'[i])
             /\ progress'[Len(progress')] \in {"Fetching profile...", "Loading repositories..."}
      ]_vars

\* fetchAllData has rejected because the third repository page failed with a 500
C4_Witness ==
    /\ pc = "rejected"
    /\ results.user # Null
    /\ reposEndpoint(3) \in failed
    /\ results.error # Null
    /\ results.error.v.status = 500
    /\ Len(netLog) = 4

\* C5 as stated: when the request for the first page of events fails,
\* fetchAllData rejects.
C5_FirstEventsFailurePropagates ==
    [][(pc = "events" /\ page = 1 /\ out.kind = "err") => pc' = "rejected"]_vars

\* C5 amended: a failed request for a page of events, the first page included,
\* is absorbed: fetchAllData does not reject, it goes on to the contributions
\* with the events received before the failure (none when the first page failed).
C5_EveryEventsFailureAbsorbed ==
    [][(pc = "events" /\ out.kind = "err")
         => /\ pc' = "contributions"
            /\ results'.events = allItems
            /\ Len(results'.events) = page - 1
            /\ results'.error = Null]_vars

\* fetchAllData has returned a bundle without events after the first events
\* page failed
C5_Witness ==
    /\ pc = "returned"
    /\ eventsEndpoint(1) \in failed
    /\ results.events = <<>>
    /\ results.error = Null

\* pages 1..Len(pages) of a list, in order, every page before the last one full
PagesInOrder(pages) ==
    /\ \A i \in 1..Len(pages) : pages[i].v = i /\ pages[i].len <= per_page
    /\ \A i \in 1..(Len(pages) - 1) : pages[i].len = per_page

\* C6: getAllEvents never throws and ends after at most 3 page requests; its
\* result is the pages received, in order, up to and including the first short
\* page, or up to the first failed request, or up to page 3: at most 300 events.
C6_GetAllEventsBounded ==
    /\ [](/\ Len(OfPath(netLog, "events")) <= 3
          /\ pc = "events" => (page \in 1..3 /\ Len(allItems) = page - 1
                                 /\ PagesInOrder(allItems)
                                 /\ \A i \in 1..Len(allItems) : allItems[i].len = per_page)
          /\ pc \in {"contributions", "returned"}
             => /\ PagesInOrder(results.events)
                /\ Len(results.events) <= 3
                /\ Count(results.events) <= 300
                /\ \/ Len(results.events) = 3
                   \/ eventsEndpoint(Len(results.events) + 1) \in failed
                   \/ /\ results.events # <<>>
                      /\ results.events[Len(results.events)].len < per_page)
    /\ [][pc = "events" => pc' # "rejected"]_vars

\* getAllEvents has returned three full pages: 300 events
C6_Witness ==
    /\ pc = "returned"
    /\ Len(results.events) = 3
    /\ Count(results.events) = 300
    /\ Len(OfPath(netLog, "events")) = 3

\* C7: getAllRepos asks for pages 1, 2, ... one at a time, stops after the
\* first page shorter than 100 or after page 10, and returns the pages received
\* in order; it never issues more than 10 page requests.
C7_GetAllReposBounded ==
    /\ Len(OfPath(netLog, "repos")) <= 10
    /\ \A i \in 1..Len(OfPath(netLog, "repos")) :
          \A j \in 1..(i - 1) : OfPath(netLog, "repos")[j].page < OfPath(netLog, "repos")[i].page
    /\ pc = "repos" => /\ page \in 1..10
                       /\ Len(allItems) = page - 1
                       /\ PagesInOrder(allItems)
                       /\ \A i \in 1..Len(allItems) : allItems[i].len = per_page
                       /\ out.kind = "none" => req[FetchCaller].endpoint = reposEndpoint(page)
    /\ pc \in {"events", "contributions", "returned"}
       => /\ PagesInOrder(results.repos)
          /\ results.repos # <<>>
          /\ Len(results.repos) <= 10
          /\ \/ results.repos[Len(results.repos)].len < per_page
             \/ Len(results.repos) = 10

\* against a server that returns only full pages getAllRepos has stopped after
\* page 10, with 1000 repositories
C7_Witness ==
    /\ pc = "returned"
    /\ Len(results.repos) = 10
    /\ Count(results.repos) = 1000
    /\ Len(OfPath(netLog, "repos")) = 10

\* C8: getContributions never rejects: when its fetch fails or the response is
\* not ok it returns the zeroed structure; so once the profile and the
\* repositories are in, fetchAllData does not reject, and it returns a bundle
\* with whatever getContributions gave.
C8_ContributionsFailureAbsorbed ==
    [][/\ (req[FetchCaller].st = "cfetch" /\ req'[FetchCaller].st = "idle")
          => out' = Returned(contributionsEndpoint, ZeroContributions, TRUE)
       /\ (pc = "contributions" /\ Pending)
          => /\ out.kind = "ok"
             /\ pc' = "returned"
             /\ results'.contributions = Some(out.data)
             /\ results'.error = Null
       /\ pc \in {"events", "contributions"} => pc' # "rejected"]_vars

\* fetchAllData has returned a bundle with the zeroed contributions after the
\* contributions endpoint failed
C8_Witness ==
    /\ pc = "returned"
    /\ results.user # Null
    /\ results.contributions = Some(ZeroContributions)
    /\ netLog[Len(netLog)] = contributionsEndpoint

----------------------------------------------------------------------------
(* Claims about the streaks *)

ActiveDays(list) ==
    { DateValue(list[i].date) : i \in { k \in 1..Len(list) : list[k].count > 0 } }

\* the length of the longest run of consecutive calendar days with count > 0
LongestRunOfDays(list) ==
    LET active == ActiveDays(list)
        runs == { n \in 0..Len(list) :
                    n = 0 \/ \E first \in active : \A k \in 0..(n - 1) : first + k \in active }
    IN  CHOOSE n \in runs : \A m \in runs : m <= n

\* C10: longestStreak is the length of the longest run of consecutive calendar
\* days that all have count > 0, for every list of the target year, unsorted
\* lists and lists that omit days included.
C10_LongestStreakIsRunOfDays ==
    spc = "done" => stats.longestStreak = LongestRunOfDays(yearContribs)

----------------------------------------------------------------------------
(* DataProcessor.calculateStats: bestDay *)

\* this.year: the year of `new Date()` when the processor was made
year == 2025

\* the ISO date string "YYYY-MM-DD" as <<year, month, day>>; '' as <<>>
IsoDate(y, m, d) == <<y, m, d>>

\* the day before a date
PrevDay(date) ==
    IF date[3] > 1 THEN IsoDate(date[1], date[2], date[3] - 1)
    ELSE IF date[2] > 1 THEN IsoDate(date[1], date[2] - 1, DaysInMonth[date[2] - 1])
    ELSE IsoDate(date[1] - 1, 12, 31)

\* the offsets of local time from UTC, in minutes east: New York, UTC, Tokyo
TimezoneOffsets == {0 - 300, 0, 540}

\* new Date("YYYY-MM-DD") is midnight UTC of that date; its local calendar
\* date is the day before when local time is behind UTC
LocalDateOfUtcMidnight(date, offset) ==
    IF offset < 0 THEN PrevDay(date) ELSE date

\* new Date(c.date).getFullYear()
getFullYear(date, offset) == LocalDateOfUtcMidnight(date, offset)[1]

\* contribArray.filter(c => new Date(c.date).getFullYear() === this.year)
FilterYear(contribArray, offset) ==
    SelectSeq(contribArray, LAMBDA c : getFullYear(c.date, offset) = year)

\* the initial value of the bestDay reduce
NoBestDay == [date |-> <<>>, count |-> 0]

\* yearContribs.reduce((best, c) => c.count > best.count ? c : best, best)
RECURSIVE ReduceBest(_, _)
ReduceBest(list, best) ==
    IF list = <<>> THEN best
    ELSE ReduceBest(Tail(list), IF Head(list).count > best.count THEN Head(list) ELSE best)

\* the dates of the entries: the first two and the last day of the target
\* year, and the last day of the year before
BestDayDates ==
    { IsoDate(year - 1, 12, 31), IsoDate(year, 1, 1), IsoDate(year, 1, 2), IsoDate(year, 12, 31) }

BestDayEntries == [date : BestDayDates, count : EntryCounts]

InitBestDay ==
    /\ rawData \in { [contributions |-> list] :
                       list \in UNION { [1..n -> BestDayEntries] : n \in 0..MaxLen } }
    /\ runtime \in { [offset |-> o] : o \in TimezoneOffsets }
    /\ processed = Null

\* calculateStats: bestDay
statsBestDay ==
    /\ processed = Null
    /\ processed' = [stats |-> [bestDay |->
           ReduceBest(FilterYear(rawData.contributions, runtime.offset), NoBestDay)]]
    /\ UNCHANGED <<rawData, runtime>>

InitBestDayInputs == InitOthers /\ InitBestDay

NextBestDay == statsBestDay /\ UNCHANGED otherVars

\* calculateStats on every list of entries, in every timezone
SpecBestDay == InitBestDayInputs /\ [][NextBestDay]_vars

\* the entries of the input whose date is of the target year
TargetYearEntries(list) == SelectSeq(list, LAMBDA c : c.date[1] = year)

\* entry i of the list has the maximum count and is the first that has it
IsFirstMaximum(list, i) ==
    /\ \A j \in 1..Len(list) : list[j].count <= list[i].count
    /\ \A j \in 1..(i - 1) : list[j].count < list[i].count

\* C11: when the input has entries of the target year, stats.bestDay is one of
\* them, its count is their maximum, and it is the first of them with that count.
C11_BestDayIsFirstMaximum ==
    LET list == TargetYearEntries(rawData.contributions)
    IN  (processed # Null /\ list # <<>>) =>
            \E i \in 1..Len(list) :
                processed.stats.bestDay = list[i] /\ IsFirstMaximum(list, i)

----------------------------------------------------------------------------
(* DataProcessor.processHeatmap *)

\* new Date(this.year, 0, 1).getDay(): 1 January 2025 is a Wednesday
Jan1Weekday == 3

RECURSIVE SumTo(_)
SumTo(m) == IF m = 0 THEN 0 ELSE DaysInMonth[m] + SumTo(m - 1)

DaysInYear == SumTo(12)

\* a local calendar day as its distance in days from 1 January of this.year
\* (negative: the year before), and the date it stands for
RECURSIVE DateInYear(_, _)
DateInYear(n, m) ==
    IF n < DaysInMonth[m] THEN IsoDate(year, m, n + 1)
    ELSE DateInYear(n - DaysInMonth[m], m + 1)

DateOfDay(n) ==
    IF n < 0 THEN IsoDate(year - 1, 12, 32 + n)
    ELSE IF n >= DaysInYear THEN IsoDate(year + 1, 1, n - DaysInYear + 1)
    ELSE DateInYear(n, 1)

\* currentDate.toISOString().split('T')[0]: the UTC date of local midnight of
\* day n, which is the day before when local time is ahead of UTC
toISODate(n, offset) == IF offset > 0 THEN DateOfDay(n - 1) ELSE DateOfDay(n)

\* currentDate.getFullYear() === this.year, in local time
InThisYear(n) == 0 <= n /\ n < DaysInYear

getContributionLevel(count) ==
    IF count = 0 THEN 0
    ELSE IF count <= 3 THEN 1
    ELSE IF count <= 6 THEN 2
    ELSE IF count <= 9 THEN 3
    ELSE 4

\* contribMap.get(dateStr) || 0, with contribMap filled entry by entry
RECURSIVE MapGet(_, _)
MapGet(list, date) ==
    IF list = <<>> THEN 0
    ELSE IF list[Len(list)].date = date THEN list[Len(list)].count
    ELSE MapGet(SubSeq(list, 1, Len(list) - 1), date)

\* the cell pushed for local day n
HeatmapCell(yearList, n, offset) ==
    LET dateStr == toISODate(n, offset)
        count == MapGet(yearList, dateStr)
    IN  [date |-> dateStr, count |-> count, level |-> getContributionLevel(count),
         dayOfWeek |-> (Jan1Weekday + n) % 7, isCurrentYear |-> InThisYear(n)]

\* the while loop: one cell per local day from the Sunday on or before
\* 1 January to the last day of this.year, seven to a week, the rest in a
\* last shorter week
HeatmapWeeks(yearList, offset) ==
    LET total == Jan1Weekday + DaysInYear
        nWeeks == (total + 6) \div 7
    IN  [w \in 1..nWeeks |->
            [i \in 1..(IF w * 7 <= total THEN 7 ELSE total - (w - 1) * 7) |->
                HeatmapCell(yearList, (w - 1) * 7 + i - 1 - Jan1Weekday, offset)]]

RECURSIVE MaxCount(_)
MaxCount(list) == IF list = <<>> THEN 1 ELSE Max(Head(list).count, MaxCount(Tail(list)))

processHeatmap(contribArray, offset) ==
    LET yearList == FilterYear(contribArray, offset)
    IN  [weeks |-> HeatmapWeeks(yearList, offset),
         maxCount |-> MaxCount(yearList)]

\* the lengths of the lists of entries given to processHeatmap
HeatmapLens == 0..2

InitHeatmap ==
    /\ rawData \in { [contributions |-> list] :
                       list \in UNION { [1..n -> BestDayEntries] : n \in HeatmapLens } }
    /\ runtime \in { [offset |-> o] : o \in TimezoneOffsets }
    /\ processed = Null

heatmapOfProcessAll ==
    /\ processed = Null
    /\ processed' = [heatmapData |-> processHeatmap(rawData.contributions, runtime.offset)]
    /\ UNCHANGED <<rawData, runtime>>

InitHeatmapInputs == InitOthers /\ InitHeatmap

NextHeatmap == heatmapOfProcessAll /\ UNCHANGED otherVars

\* processHeatmap on every list of entries, in every timezone
SpecHeatmap == InitHeatmapInputs /\ [][NextHeatmap]_vars

\* the cells of the grid flagged isCurrentYear, in grid order, as date and count
RECURSIVE FlaggedCells(_)
FlaggedCells(weeks) ==
    IF weeks = <<>> THEN <<>>
    ELSE LET flagged == SelectSeq(Head(weeks), LAMBDA c : c.isCurrentYear)
         IN  [i \in 1..Len(flagged) |-> [date |-> flagged[i].date, count |-> flagged[i].count]]
             \o FlaggedCells(Tail(weeks))

\* every date of the target year in ascending order, each with the count the
\* input gives for it, 0 when the input has no entry for it
YearOfCounts(list) ==
    [i \in 1..DaysInYear |-> [date |-> DateOfDay(i - 1), count |-> MapGet(list, DateOfDay(i - 1))]]

\* C12: the cells flagged isCurrentYear, read in grid order, are the dates of the
\* target year, each once and in ascending order, each with the count of the
\* input, in every timezone.
C12_HeatmapReproducesYear ==
    processed # Null =>
        FlaggedCells(processed.heatmapData.weeks) = YearOfCounts(rawData.contributions)

----------------------------------------------------------------------------
(* DataProcessor.calculateActivityBreakdown *)

\* the most events in a list
MaxEvents == 4

\* event.payload.commits.length of a PushEvent
CommitLens == {0, 2, 13}

EventTypes ==
    { "PushEvent", "PullRequestEvent", "IssuesEvent", "IssueCommentEvent",
      "PullRequestReviewEvent", "PullRequestReviewCommentEvent", "WatchEvent" }

\* an event, as far as calculateActivityBreakdown reads it
BreakdownEvents ==
    { [type |-> "PushEvent", commits |-> n] : n \in CommitLens }
      \cup { [type |-> t, commits |-> 0] : t \in EventTypes \ {"PushEvent"} }

\* event.payload?.commits?.length without the || 1
CommitCount_lengthOnly(event) == event.commits

\* event.payload?.commits?.length || 1
CommitCount(event) == IF event.commits = 0 THEN 1 ELSE event.commits

NoBreakdown == [commits |-> 0, pullRequests |-> 0, issues |-> 0, reviews |-> 0, other |-> 0]

\* the switch on event.type
CountEvent(breakdown, event) ==
    IF event.type = "PushEvent"
    THEN [breakdown EXCEPT !.commits = @ + CommitCount(event)]
    ELSE IF event.type = "PullRequestEvent"
    THEN [breakdown EXCEPT !.pullRequests = @ + 1]
    ELSE IF event.type \in {"IssuesEvent", "IssueCommentEvent"}
    THEN [breakdown EXCEPT !.issues = @ + 1]
    ELSE IF event.type \in {"PullRequestReviewEvent", "PullRequestReviewCommentEvent"}
    THEN [breakdown EXCEPT !.reviews = @ + 1]
    ELSE [breakdown EXCEPT !.other = @ + 1]

RECURSIVE CountEvents(_, _)
CountEvents(events, breakdown) ==
    IF events = <<>> THEN breakdown
    ELSE CountEvents(Tail(events), CountEvent(breakdown, Head(events)))

\* ((part / total) * 100).toFixed(1) that cuts the digits after the first off
toFixed1_truncated(part, total) == (1000 * part) \div total

\* ((part / total) * 100).toFixed(1), in tenths of a percent: the nearest
\* tenth, the larger one of two equally near.  With the totals reached here
\* two tenths are equally near only for total = 16, where the division and
\* the product are exact in binary floating point.
toFixed1(part, total) == (2000 * part + total) \div (2 * total)

\* total > 0 ? ((part / total) * 100).toFixed(1) : 0
Percentage(part, total) == IF total > 0 THEN toFixed1(part, total) ELSE 0

calculateActivityBreakdown(events) ==
    LET breakdown == CountEvents(events, NoBreakdown)
        total == breakdown.commits + breakdown.pullRequests + breakdown.issues
                   + breakdown.reviews + breakdown.other
    IN  [commits |-> breakdown.commits, pullRequests |-> breakdown.pullRequests,
         issues |-> breakdown.issues, reviews |-> breakdown.reviews,
         other |-> breakdown.other, total |-> total,
         percentages |-> [commits |-> Percentage(breakdown.commits, total),
                          pullRequests |-> Percentage(breakdown.pullRequests, total),
                          issues |-> Percentage(breakdown.issues, total),
                          reviews |-> Percentage(breakdown.reviews, total)]]

InitBreakdown ==
    /\ rawData \in { [events |-> list] :
                       list \in UNION { [1..n -> BreakdownEvents] : n \in 0..MaxEvents } }
    /\ runtime = Null
    /\ processed = Null

breakdownOfProcessAll ==
    /\ processed = Null
    /\ processed' = [activityBreakdown |-> calculateActivityBreakdown(rawData.events)]
    /\ UNCHANGED <<rawData, runtime>>

InitBreakdownInputs == InitOthers /\ InitBreakdown

NextBreakdown == breakdownOfProcessAll /\ UNCHANGED otherVars

\* calculateActivityBreakdown on every list of events
SpecBreakdown == InitBreakdownInputs /\ [][NextBreakdown]_vars

\* the sum of the reported percentages, in tenths of a percent
PercentageSum(b) ==
    b.percentages.commits + b.percentages.pullRequests
      + b.percentages.issues + b.percentages.reviews

Abs(x) == IF x < 0 THEN 0 - x ELSE x

NearShare(pct, part, total) == Abs(2 * pct * total - 2000 * part) <= total

----------------------------------------------------------------------------
(* DataProcessor.scoreRepositories: base mode (js/data-processor.js) and
   activity-weighted mode (part_003) *)

\* the most repositories in a list that is ranked
MaxRepos == 3

Min(a, b) == IF a <= b THEN a ELSE b

\* Math.log10 of a power of ten, the only arguments given here
RECURSIVE Log10(_)
Log10(n) == IF n < 10 THEN 0 ELSE 1 + Log10(n \div 10)

\* Scores are held in hundredths of a point, rounded scores in tenths.
\* Math.round(score * 10) / 10: the nearest tenth, the larger of two equally near
RoundToTenth(hundredths) == (hundredths + 5) \div 10

\* (now - new Date(repo.pushed_at)) / (1000 * 60 * 60 * 24), dates held in days
daysSinceUpdate(repo, nowDay) == nowDay - repo.pushed_at

\* repo.description ? ... : 0: null and '' are falsy
HasDescription(repo) == repo.description.some /\ repo.description.v > 0

\* base mode: repo.fork ? 15 : 0
originalityBase_inverted(repo) == IF repo.fork THEN 1500 ELSE 0

\* base mode: repo.fork ? 0 : 15
originalityBase(repo) == IF repo.fork THEN 0 ELSE 1500

\* base mode: the six terms
BaseBreakdown(repo, nowDay) ==
    [stars       |-> Log10(repo.stargazers_count + 1) * 2500,
     forks       |-> Log10(repo.forks_count + 1) * 2000,
     activity    |-> Max(0, 2500 - daysSinceUpdate(repo, nowDay) * 10),
     originality |-> originalityBase(repo),
     description |-> IF HasDescription(repo) THEN Min(1000, repo.description.v * 5) ELSE 0,
     size        |-> Min(500, Log10(repo.size + 1) * 100)]

\* base mode: the object the map callback returns
ScoreBase(repo, nowDay) ==
    LET b == BaseBreakdown(repo, nowDay)
    IN  repo @@
        [score |-> RoundToTenth(b.stars + b.forks + b.activity + b.originality
                                  + b.description + b.size),
         scoreBreakdown |-> [stars |-> RoundToTenth(b.stars), forks |-> RoundToTenth(b.forks),
                             activity |-> RoundToTenth(b.activity),
                             originality |-> b.originality \div 10,
                             description |-> RoundToTenth(b.description),
                             size |-> RoundToTenth(b.size)]]

NoActivity == [commits |-> 0, pullRequests |-> 0, issues |-> 0, total |-> 0]

\* Math.max(...Object.values(repoActivity).map(a => a.total || 0), 1)
maxActivity(repoActivity) ==
    LET totals == { repoActivity[k].total : k \in DOMAIN repoActivity } \cup {1}
    IN  CHOOSE m \in totals : \A t \in totals : t <= m

\* repoActivity[repo.name] || { commits: 0, pullRequests: 0, issues: 0, total: 0 }
ActivityOf(repo, repoActivity) ==
    IF repo.name \in DOMAIN repoActivity THEN repoActivity[repo.name] ELSE NoActivity

\* activity-weighted mode: the seven terms
WeightedBreakdown(repo, repoActivity, nowDay) ==
    LET activity == ActivityOf(repo, repoActivity)
    IN  [userActivity |-> Min(3500, (activity.total * 3500) \div maxActivity(repoActivity)
                                      + (IF activity.commits > 0 THEN 1000 ELSE 0)
                                      + (IF activity.pullRequests > 0 THEN 500 ELSE 0)),
         recency     |-> Max(0, 2000 - (daysSinceUpdate(repo, nowDay) * 100) \div 15),
         stars       |-> Log10(repo.stargazers_count + 1) * 1000,
         forks       |-> Log10(repo.forks_count + 1) * 800,
         originality |-> IF repo.fork THEN 0 ELSE 1000,
         description |-> IF HasDescription(repo)
                         THEN Min(500, (repo.description.v * 100) \div 40) ELSE 0,
         size        |-> Min(500, Log10(repo.size + 1) * 100)]

\* activity-weighted mode: the object the map callback returns
ScoreWeighted(repo, repoActivity, nowDay) ==
    LET b == WeightedBreakdown(repo, repoActivity, nowDay)
    IN  repo @@
        [score |-> RoundToTenth(b.userActivity + b.recency + b.stars + b.forks
                                  + b.originality + b.description + b.size),
         userActivity |-> ActivityOf(repo, repoActivity),
         scoreBreakdown |-> [userActivity |-> RoundToTenth(b.userActivity),
                             recency |-> RoundToTenth(b.recency),
                             stars |-> RoundToTenth(b.stars), forks |-> RoundToTenth(b.forks),
                             originality |-> b.originality \div 10,
                             description |-> RoundToTenth(b.description),
                             size |-> RoundToTenth(b.size)]]

\* scored.sort((a, b) => b.score - a.score) that puts a repository before the
\* ones of equal score
RECURSIVE InsertByScore_beforeEqual(_, _)
InsertByScore_beforeEqual(x, sorted) ==
    IF sorted = <<>> THEN <<x>>
    ELSE IF Head(sorted).score - x.score <= 0 THEN <<x>> \o sorted
    ELSE <<Head(sorted)>> \o InsertByScore_beforeEqual(x, Tail(sorted))

\* scored.sort((a, b) => b.score - a.score): Array.prototype.sort is stable,
\* x goes before the first y for which the comparator says so
RECURSIVE InsertByScore(_, _)
InsertByScore(x, sorted) ==
    IF sorted = <<>> THEN <<x>>
    ELSE IF Head(sorted).score - x.score < 0 THEN <<x>> \o sorted
    ELSE <<Head(sorted)>> \o InsertByScore(x, Tail(sorted))

RECURSIVE SortByScore(_)
SortByScore(scored) ==
    IF scored = <<>> THEN <<>>
    ELSE InsertByScore(scored[Len(scored)], SortByScore(SubSeq(scored, 1, Len(scored) - 1)))

\* js/data-processor.js: scoreRepositories(repos)
scoreRepositoriesBase(repos, nowDay) ==
    SortByScore([i \in 1..Len(repos) |-> ScoreBase(repos[i], nowDay)])

\* part_003: scoreRepositories(repos, repoActivity)
scoreRepositories(repos, repoActivity, nowDay) ==
    SortByScore([i \in 1..Len(repos) |-> ScoreWeighted(repos[i], repoActivity, nowDay)])

\* the fields of a repository that scoring reads
RepoFields ==
    {"name", "stargazers_count", "forks_count", "fork", "description", "size", "pushed_at"}

\* repositories of every kind: few or many stars and forks, forked or not,
\* with or without description, small or large, pushed 30 or 300 days ago
ScoredRepos ==
    [name : {"a"}, stargazers_count : {0, 9, 99999}, forks_count : {0, 999},
     fork : BOOLEAN, description : {Null, Some(30)}, size : {99, 9999999},
     pushed_at : {370, 100}]

\* repositories that differ in name and stars only, for the ranking
RankedRepos ==
    [name : {"a", "b", "c"}, stargazers_count : {0, 9}, forks_count : {0},
     fork : {FALSE}, description : {Null}, size : {99}, pushed_at : {370}]

\* the lists of repositories given to scoreRepositories
RepoLists ==
    UNION { [1..n -> ScoredRepos] : n \in 1..2 }
      \cup UNION { [1..n -> RankedRepos] : n \in 0..MaxRepos }

\* calculateRepoActivity(events), per repository name
RepoActivities ==
    { [k \in {} |-> NoActivity],
      [k \in {"a"} |-> [commits |-> 2, pullRequests |-> 1, issues |-> 0, total |-> 4]],
      [k \in {"a", "b"} |->
          IF k = "a" THEN [commits |-> 0, pullRequests |-> 0, issues |-> 2, total |-> 2]
          ELSE [commits |-> 3, pullRequests |-> 0, issues |-> 1, total |-> 4]] }

InitScore ==
    /\ rawData \in [repos : RepoLists, repoActivity : RepoActivities]
    /\ runtime = [now |-> 400]
    /\ processed = Null

\* processAll of js/data-processor.js: scoredRepos
scoreBase ==
    /\ processed = Null
    /\ processed' = [mode |-> "base",
                     scoredRepos |-> scoreRepositoriesBase(rawData.repos, runtime.now)]
    /\ UNCHANGED <<rawData, runtime>>

\* processAll of part_003: scoredRepos
scoreWeighted ==
    /\ processed = Null
    /\ processed' = [mode |-> "weighted",
                     scoredRepos |-> scoreRepositories(rawData.repos, rawData.repoActivity,
                                                       runtime.now)]
    /\ UNCHANGED <<rawData, runtime>>

InitScoreInputs == InitOthers /\ InitScore

NextScore ==
    \/ scoreBase /\ UNCHANGED otherVars
    \/ scoreWeighted /\ UNCHANGED otherVars

\* scoreRepositories in both modes on every list of repositories
SpecScore == InitScoreInputs /\ [][NextScore]_vars

\* C14: in base mode the score of every repository is at most 100.
C14_BaseScoreAtMost100 ==
    (processed # Null /\ processed.mode = "base") =>
        \A i \in 1..Len(processed.scoredRepos) : processed.scoredRepos[i].score <= 1000

\* two scored repositories are equal in every input field but one
SameBut(a, b, field) == \A f \in RepoFields \ {field} : a[f] = b[f]

\* C15: of two repositories that differ in stargazers_count only, the one with
\* more stars never has the lower score, in either mode; in base mode, of two
\* that differ in `fork` only, the forked one never has the higher score.
C15_ScoreMonotonic ==
    processed # Null =>
        \A i, j \in 1..Len(processed.scoredRepos) :
            LET a == processed.scoredRepos[i]
                b == processed.scoredRepos[j]
            IN  /\ (SameBut(a, b, "stargazers_count")
                      /\ a.stargazers_count <= b.stargazers_count) => a.score <= b.score
                /\ (processed.mode = "base" /\ SameBut(a, b, "fork") /\ a.fork /\ ~b.fork)
                      => a.score <= b.score

\* two repositories that differ in stars only were scored, the one with more
\* stars higher
C15_Witness ==
    /\ processed # Null
    /\ Len(processed.scoredRepos) = 2
    /\ SameBut(processed.scoredRepos[1], processed.scoredRepos[2], "stargazers_count")
    /\ processed.scoredRepos[1].stargazers_count > processed.scoredRepos[2].stargazers_count
    /\ processed.scoredRepos[1].score > processed.scoredRepos[2].score
    /\ rawData.repos[1].stargazers_count < rawData.repos[2].stargazers_count

\* a scored repository without what scoring added to it
Undecorated(d) == [f \in RepoFields |-> d[f]]

Orderings(n) ==
    { pi \in [1..n -> 1..n] : \A i, j \in 1..n : i # j => pi[i] # pi[j] }

\* result[i] is repos[pi[i]] decorated, scores do not increase along the
\* result, and equal scores keep the order of the input
RankedBy(pi, result, repos) ==
    /\ \A i \in 1..Len(result) :
          /\ Undecorated(result[i]) = repos[pi[i]]
          /\ {"score", "scoreBreakdown"} \subseteq DOMAIN result[i]
    /\ \A i, j \in 1..Len(result) :
          i < j => /\ result[i].score >= result[j].score
                   /\ result[i].score = result[j].score => pi[i] < pi[j]

\* C16: in both modes the result is a permutation of the input, each repository
\* decorated with score and scoreBreakdown, ordered by non-increasing score,
\* repositories of equal score in their input order.
C16_StableRanking ==
    processed # Null =>
        /\ Len(processed.scoredRepos) = Len(rawData.repos)
        /\ \E pi \in Orderings(Len(rawData.repos)) :
              RankedBy(pi, processed.scoredRepos, rawData.repos)

\* three repositories were ranked: the last of the input came first, the two
\* of equal score before it kept their order
C16_Witness ==
    /\ processed # Null
    /\ Len(processed.scoredRepos) = 3
    /\ Undecorated(processed.scoredRepos[1]) = rawData.repos[3]
    /\ Undecorated(processed.scoredRepos[2]) = rawData.repos[1]
    /\ processed.scoredRepos[2].score = processed.scoredRepos[3].score
    /\ processed.scoredRepos[2].name # processed.scoredRepos[3].name
    /\ processed.scoredRepos[1].score > processed.scoredRepos[2].score

----------------------------------------------------------------------------
(* DataProcessor.determinePersona *)

\* the distance in days of a date of this.year, or of the December before,
\* from 1 January of this.year
DayOfYear(date) ==
    IF date[1] = year THEN DaysBeforeMonth(date[2]) + date[3] - 1
    ELSE date[3] - 32

\* new Date(c.date).getDay(): the weekday of the local calendar date of
\* midnight UTC, 0 = Sunday
getDay(date, offset) ==
    (Jan1Weekday + 7 + DayOfYear(LocalDateOfUtcMidnight(date, offset))) % 7

\* calculateHourlyActivity: hours[h], events given by the local hour of created_at
HourCount(events, h) == Cardinality({ i \in 1..Len(events) : events[i].hour = h })

\* hours.indexOf(Math.max(...hours)): the first hour with the most events
peakHour(events) ==
    CHOOSE h \in 0..23 :
        /\ \A g \in 0..23 : HourCount(events, g) <= HourCount(events, h)
        /\ \A g \in 0..(h - 1) : HourCount(events, g) < HourCount(events, h)

\* formatHour(hour)
formatHour(hour) ==
    [displayHour |-> IF hour % 12 = 0 THEN 12 ELSE hour % 12,
     suffix |-> IF hour >= 12 THEN "PM" ELSE "AM"]

RECURSIVE SumCounts(_)
SumCounts(list) == IF list = <<>> THEN 0 ELSE Head(list).count + SumCounts(Tail(list))

RECURSIVE SumStars(_)
SumStars(repos) ==
    IF repos = <<>> THEN 0 ELSE Head(repos).stargazers_count + SumStars(Tail(repos))

\* the names of the personas array, in its order
PersonaNames ==
    << "Night Owl", "Early Bird", "Weekend Warrior", "Grid Painter", "The Consistent",
       "Community Star" >>

\* the conditions with a Night Owl whose small hours begin after midnight
Condition_nightAfterMidnight(k, peak, weekend, total, followers, stars) ==
    IF k = 1 THEN peak >= 22 \/ (peak > 0 /\ peak < 4)
    ELSE IF k = 2 THEN peak >= 5 /\ peak < 9
    ELSE IF k = 3 THEN total > 0 /\ weekend * 100 > 35 * total
    ELSE IF k = 4 THEN total >= 1200
    ELSE IF k = 5 THEN total >= 400
    ELSE followers >= 500 \/ stars >= 1000

\* the condition of persona k, on the values determinePersona computed
Condition(k, peak, weekend, total, followers, stars) ==
    IF k = 1 THEN peak >= 22 \/ peak < 4
    ELSE IF k = 2 THEN peak >= 5 /\ peak < 9
    ELSE IF k = 3 THEN total > 0 /\ weekend * 100 > 35 * total
    ELSE IF k = 4 THEN total >= 1200
    ELSE IF k = 5 THEN total >= 400
    ELSE followers >= 500 \/ stars >= 1000

\* personas.find(p => p.condition()) || The Tinkerer
FirstPersona(peak, weekend, total, followers, stars) ==
    LET matching == { k \in 1..Len(PersonaNames) :
                        Condition(k, peak, weekend, total, followers, stars) }
    IN  IF matching = {} THEN "The Tinkerer"
        ELSE PersonaNames[CHOOSE k \in matching : \A m \in matching : k <= m]

determinePersona(contributions, repos, user, events, offset) ==
    LET yearList == FilterYear(contributions, offset)
        totalContribs == SumCounts(yearList)
        totalStars == SumStars(repos)
        weekdayContribs ==
            SumCounts(SelectSeq(yearList, LAMBDA c : getDay(c.date, offset) > 0
                                                       /\ getDay(c.date, offset) < 6))
        weekendContribs == totalContribs - weekdayContribs
    IN  [name |-> FirstPersona(peakHour(events), weekendContribs, totalContribs,
                               user.followers, totalStars),
         stats |-> [totalContribs |-> totalContribs,
                    weekendRatio |-> IF totalContribs > 0
                                     THEN (200 * weekendContribs + totalContribs)
                                            \div (2 * totalContribs)
                                     ELSE 0,
                    peakHour |-> formatHour(peakHour(events)),
                    followers |-> user.followers,
                    stars |-> totalStars]]

\* a Saturday, a Monday and a Wednesday of the target year
PersonaDates == { IsoDate(year, 1, 4), IsoDate(year, 1, 6), IsoDate(year, 1, 8) }

PersonaEntries == [date : PersonaDates, count : {0, 35, 65, 400, 1200}]

\* the local hours of the events: none, one event at an hour on either side of
\* each limit, a majority, and a tie
PersonaEvents ==
    { <<>>, << [hour |-> 23], [hour |-> 14], [hour |-> 14] >>, << [hour |-> 14], [hour |-> 3] >> }
      \cup { << [hour |-> h] >> : h \in {3, 4, 5, 8, 9, 14, 21, 22} }

InitPersona ==
    /\ rawData \in [contributions : UNION { [1..n -> PersonaEntries] : n \in 0..2 },
                    events : PersonaEvents,
                    user : [followers : {499, 600}],
                    repos : { <<>>, << [stargazers_count |-> 999] >>,
                              << [stargazers_count |-> 999], [stargazers_count |-> 1] >> }]
    /\ runtime \in { [offset |-> o] : o \in TimezoneOffsets }
    /\ processed = Null

personaOfProcessAll ==
    /\ processed = Null
    /\ processed' = [persona |-> determinePersona(rawData.contributions, rawData.repos,
                                                  rawData.user, rawData.events, runtime.offset)]
    /\ UNCHANGED <<rawData, runtime>>

InitPersonaInputs == InitOthers /\ InitPersona

NextPersona == personaOfProcessAll /\ UNCHANGED otherVars

\* determinePersona on every input, in every timezone
SpecPersona == InitPersonaInputs /\ [][NextPersona]_vars

\* the weekday of a calendar date, 0 = Sunday
Weekday(date) == (Jan1Weekday + DayOfYear(date)) % 7

\* the contributions of the target-year entries dated on a Saturday or Sunday
WeekendCounts(list) ==
    SumCounts(SelectSeq(TargetYearEntries(list), LAMBDA c : Weekday(c.date) \in {0, 6}))

\* C17: the persona is the first of Night Owl, Early Bird, Weekend Warrior,
\* Grid Painter, The Consistent, Community Star whose predicate holds of the
\* peak hour, the share of the year's contributions made on Saturdays and
\* Sundays, the year's total, the followers and the stars, and The Tinkerer
\* iff none holds.
C17_FirstMatchingPersona ==
    processed # Null =>
        processed.persona.name =
            FirstPersona(peakHour(rawData.events),
                         WeekendCounts(rawData.contributions),
                         SumCounts(TargetYearEntries(rawData.contributions)),
                         rawData.user.followers, SumStars(rawData.repos))

----------------------------------------------------------------------------
(* DataProcessor.getTopContributedRepos *)

\* A repository name "owner/repo" is held as <<owner, repo>>, a short name
\* "repo" as <<repo>>: a short name holds no "/", so the two never coincide.
FullName(owner, short) == <<owner, short>>

\* fullRepoName.split('/')[1]
ShortName(fullName) == <<fullName[2]>>

EventRepos == { FullName(o, n) : o \in {"me", "other"}, n \in {"foo", "bar"} }

\* what getTopContributedRepos reads of an event apart from its repository:
\* the type, payload.action, and payload.commits.length of a push
TopEventKinds ==
    { [type |-> "PushEvent", action |-> "", commits |-> n] : n \in {0, 2} }
      \cup { [type |-> "PullRequestEvent", action |-> a, commits |-> 0] :
               a \in {"opened", "closed", "reopened"} }
      \cup { [type |-> "IssuesEvent", action |-> a, commits |-> 0] : a \in {"opened", "closed"} }
      \cup { [type |-> t, action |-> "created", commits |-> 0] :
               t \in {"PullRequestReviewEvent", "PullRequestReviewCommentEvent",
                      "IssueCommentEvent"} }
      \cup { [type |-> "WatchEvent", action |-> "started", commits |-> 0] }

TopEvents ==
    { [repo |-> r, type |-> k.type, action |-> k.action, commits |-> k.commits] :
        r \in EventRepos, k \in TopEventKinds }

\* the user's own repositories: with and without description and stars
OwnedRepos ==
    { [name |-> <<"foo">>, full_name |-> FullName("me", "foo"), description |-> Some("a fork"),
       language |-> Some("JavaScript"), stargazers_count |-> 5, forks_count |-> 1],
      [name |-> <<"bar">>, full_name |-> FullName("me", "bar"), description |-> Null,
       language |-> Null, stargazers_count |-> 0, forks_count |-> 0] }

\* the lengths of the lists of events and of owned repositories
TopLens == 0..2

\* ownedRepoMap[key]: the last repository stored under its name or full_name
RECURSIVE ownedRepoMap(_, _)
ownedRepoMap(ownedRepos, key) ==
    IF ownedRepos = <<>> THEN Null
    ELSE LET repo == ownedRepos[Len(ownedRepos)]
         IN  IF repo.name = key \/ repo.full_name = key THEN Some(repo)
             ELSE ownedRepoMap(SubSeq(ownedRepos, 1, Len(ownedRepos) - 1), key)

\* ownedRepoMap[repo.name] || ownedRepoMap[repo.fullName]
OwnedRepoOf(ownedRepos, fullName) ==
    IF ownedRepoMap(ownedRepos, ShortName(fullName)).some
    THEN ownedRepoMap(ownedRepos, ShortName(fullName))
    ELSE ownedRepoMap(ownedRepos, fullName)

NoContribution(fullName) ==
    [name |-> ShortName(fullName), fullName |-> fullName, commits |-> 0,
     pullRequests |-> 0, reviews |-> 0, issues |-> 0, total |-> 0]

\* the switch on event.type that counts a pull request event whatever its action
Contribute_anyAction(contrib, event) ==
    IF event.type = "PushEvent"
    THEN [contrib EXCEPT !.commits = @ + CommitCount(event),
                         !.total = @ + 2 * (CommitCount(event) * 2)]
    ELSE IF event.type = "PullRequestEvent"
    THEN [contrib EXCEPT !.pullRequests = @ + 1, !.total = @ + 2 * 3]
    ELSE IF event.type = "PullRequestReviewEvent"
    THEN [contrib EXCEPT !.reviews = @ + 1, !.total = @ + 2 * 2]
    ELSE IF event.type = "PullRequestReviewCommentEvent"
    THEN [contrib EXCEPT !.reviews = @ + 1, !.total = @ + 2 * 1]
    ELSE IF event.type = "IssuesEvent"
    THEN IF event.action = "opened"
         THEN [contrib EXCEPT !.issues = @ + 1, !.total = @ + 2 * 1]
         ELSE contrib
    ELSE IF event.type = "IssueCommentEvent"
    THEN [contrib EXCEPT !.issues = @ + 1, !.total = @ + 1]
    ELSE contrib

\* the switch on event.type; total is held in halves (an issue comment adds 0.5)
Contribute(contrib, event) ==
    IF event.type = "PushEvent"
    THEN [contrib EXCEPT !.commits = @ + CommitCount(event),
                         !.total = @ + 2 * (CommitCount(event) * 2)]
    ELSE IF event.type = "PullRequestEvent"
    THEN IF event.action = "opened" \/ event.action = "closed"
         THEN [contrib EXCEPT !.pullRequests = @ + 1, !.total = @ + 2 * 3]
         ELSE contrib
    ELSE IF event.type = "PullRequestReviewEvent"
    THEN [contrib EXCEPT !.reviews = @ + 1, !.total = @ + 2 * 2]
    ELSE IF event.type = "PullRequestReviewCommentEvent"
    THEN [contrib EXCEPT !.reviews = @ + 1, !.total = @ + 2 * 1]
    ELSE IF event.type = "IssuesEvent"
    THEN IF event.action = "opened"
         THEN [contrib EXCEPT !.issues = @ + 1, !.total = @ + 2 * 1]
         ELSE contrib
    ELSE IF event.type = "IssueCommentEvent"
    THEN [contrib EXCEPT !.issues = @ + 1, !.total = @ + 1]
    ELSE contrib

\* repoContributions after the loop over the events: its values in the order
\* their keys were added
RECURSIVE repoContributions(_, _)
repoContributions(events, values) ==
    IF events = <<>> THEN values
    ELSE LET event == Head(events)
             at == { i \in 1..Len(values) : values[i].fullName = event.repo }
         IN  IF at = {}
             THEN repoContributions(Tail(events),
                      Append(values, Contribute(NoContribution(event.repo), event)))
             ELSE repoContributions(Tail(events),
                      [values EXCEPT ![CHOOSE i \in at : TRUE] = Contribute(@, event)])

\* the object the map callback returns (html_url and lastActivity left out)
ContributedRepo(repo, ownedRepos) ==
    LET ownedRepo == OwnedRepoOf(ownedRepos, repo.fullName)
    IN  [name |-> repo.name,
         full_name |-> repo.fullName,
         description |-> IF ownedRepo.some /\ ownedRepo.v.description.some
                         THEN ownedRepo.v.description
                         ELSE [some |-> TRUE, contributed |-> repo.commits],
         language |-> IF ownedRepo.some THEN ownedRepo.v.language ELSE Null,
         stargazers_count |-> IF ownedRepo.some THEN ownedRepo.v.stargazers_count ELSE 0,
         forks_count |-> IF ownedRepo.some THEN ownedRepo.v.forks_count ELSE 0,
         isOwned |-> ownedRepo.some,
         userActivity |-> [commits |-> repo.commits, pullRequests |-> repo.pullRequests,
                           reviews |-> repo.reviews, issues |-> repo.issues,
                           total |-> repo.total],
         score |-> repo.total]

getTopContributedRepos(events, ownedRepos) ==
    LET contributed == SelectSeq(repoContributions(events, <<>>),
                                 LAMBDA repo : repo.commits > 0 \/ repo.pullRequests > 0
                                                 \/ repo.reviews > 0)
    IN  SortByScore([i \in 1..Len(contributed) |-> ContributedRepo(contributed[i], ownedRepos)])

InitTopRepos ==
    /\ rawData \in [events : UNION { [1..n -> TopEvents] : n \in TopLens },
                    repos : UNION { [1..n -> OwnedRepos] : n \in TopLens }]
    /\ runtime = Null
    /\ processed = Null

topReposOfProcessAll ==
    /\ processed = Null
    /\ processed' = [topContributedRepos |->
                        getTopContributedRepos(rawData.events, rawData.repos)]
    /\ UNCHANGED <<rawData, runtime>>

InitTopReposInputs == InitOthers /\ InitTopRepos

NextTopRepos == topReposOfProcessAll /\ UNCHANGED otherVars

\* getTopContributedRepos on every list of events and of owned repositories
SpecTopRepos == InitTopReposInputs /\ [][NextTopRepos]_vars

\* the owned repositories whose full owner/name identity is fullName
OwnedWithIdentity(ownedRepos, fullName) ==
    { i \in 1..Len(ownedRepos) : ownedRepos[i].full_name = fullName }

\* C18: an entry has isOwned = true and the owned repository's description,
\* language, star and fork counts iff a repository of the same full owner/name
\* identity is in the user's own list; otherwise isOwned = false and the four
\* fields have their defaults.
C18_OwnedIffSameIdentity ==
    processed # Null =>
        \A k \in 1..Len(processed.topContributedRepos) :
            LET e == processed.topContributedRepos[k]
                own == OwnedWithIdentity(rawData.repos, e.full_name)
            IN  /\ own # {} =>
                    /\ e.isOwned
                    /\ \E i \in own :
                          /\ e.description = rawData.repos[i].description
                          /\ e.language = rawData.repos[i].language
                          /\ e.stargazers_count = rawData.repos[i].stargazers_count
                          /\ e.forks_count = rawData.repos[i].forks_count
                /\ own = {} =>
                    /\ ~e.isOwned
                    /\ e.description = [some |-> TRUE, contributed |-> e.userActivity.commits]
                    /\ e.language = Null
                    /\ e.stargazers_count = 0
                    /\ e.forks_count = 0

----------------------------------------------------------------------------
(* GitStoryApp: slide navigation and the auto-advance timer *)

\* this.elements.slides.length: the welcome slide and three story slides
SlideCount == 4

\* how many timeouts startAutoAdvance sets in one behaviour
MaxTimers == 6

\* the fields the navigation methods read and write, and the pending timeouts
App ==
    [currentSlide |-> currentSlide, totalSlides |-> totalSlides, isPlaying |-> isPlaying,
     autoAdvanceTimer |-> autoAdvanceTimer, timers |-> timers, timerIds |-> timerIds]

\* clearTimeout(handle): nothing happens for null or for a timeout that ran
clearTimeout(app, handle) ==
    IF handle.some THEN [app EXCEPT !.timers = @ \ {handle.v}] ELSE app

\* setTimeout(callback, autoAdvanceDelay), its handle stored in autoAdvanceTimer
startAutoAdvance(app) ==
    IF ~app.isPlaying THEN app
    ELSE [app EXCEPT !.timerIds = @ + 1,
                     !.timers = @ \cup {app.timerIds + 1},
                     !.autoAdvanceTimer = Some(app.timerIds + 1)]

pauseAutoAdvance(app, temporary) ==
    LET cleared == [clearTimeout(app, app.autoAdvanceTimer) EXCEPT !.autoAdvanceTimer = Null]
    IN  IF temporary THEN cleared ELSE [cleared EXCEPT !.isPlaying = FALSE]

resetAutoAdvance(app) ==
    IF app.isPlaying THEN startAutoAdvance(clearTimeout(app, app.autoAdvanceTimer))
    ELSE app

goToSlide(app, index) ==
    IF index < 0 \/ index >= app.totalSlides THEN app
    ELSE [app EXCEPT !.currentSlide = index]

nextSlide(app) ==
    IF app.currentSlide < app.totalSlides - 1
    THEN resetAutoAdvance(goToSlide(app, app.currentSlide + 1))
    ELSE app

prevSlide(app) ==
    IF app.currentSlide > 1
    THEN resetAutoAdvance(goToSlide(app, app.currentSlide - 1))
    ELSE app

toggleAutoAdvance(app) ==
    IF app.isPlaying THEN pauseAutoAdvance(app, FALSE)
    ELSE startAutoAdvance([app EXCEPT !.isPlaying = TRUE])

\* the callback startAutoAdvance hands to setTimeout
autoAdvanceCallback(app) ==
    IF app.currentSlide < app.totalSlides - 1
    THEN startAutoAdvance(nextSlide(app))
    ELSE pauseAutoAdvance(app, FALSE)

\* a handler has run: the fields it leaves behind
Ran(handler, app) ==
    /\ app.timerIds <= MaxTimers
    /\ currentSlide' = app.currentSlide
    /\ totalSlides' = app.totalSlides
    /\ isPlaying' = app.isPlaying
    /\ autoAdvanceTimer' = app.autoAdvanceTimer
    /\ timers' = app.timers
    /\ timerIds' = app.timerIds
    /\ lastHandler' = handler

\* init(): countSlides
init ==
    /\ lastHandler = "constructor"
    /\ Ran("init", [App EXCEPT !.totalSlides = SlideCount])
    /\ UNCHANGED <<hidden, userData, processedData, loading>>

\* the data a successful fetchAllData or processAll leaves in its field
Loaded == Some("story")

\* handleFormSubmit with a username, up to its first await: the form is on the
\* welcome slide and is disabled while the story loads
handleFormSubmit ==
    /\ lastHandler # "constructor"
    /\ currentSlide = 0
    /\ ~loading
    /\ loading' = TRUE
    /\ Ran("handleFormSubmit", App)
    /\ UNCHANGED <<hidden, userData, processedData>>

\* handleFormSubmit after fetchAllData, processAll and populateSlides returned:
\* goToSlide(1)
storyShown ==
    /\ loading
    /\ loading' = FALSE
    /\ userData' = Loaded
    /\ processedData' = Loaded
    /\ Ran("storyShown", goToSlide(App, 1))
    /\ UNCHANGED hidden

\* handleFormSubmit when the call named by stage throws: the catch block shows
\* the error, the assignments before the throw stay
submitFailed(stage) ==
    /\ loading
    /\ loading' = FALSE
    /\ userData' = IF stage = "fetchAllData" THEN userData ELSE Loaded
    /\ processedData' = IF stage = "populateSlides" THEN Loaded ELSE processedData
    /\ Ran("submitFailed", App)
    /\ UNCHANGED hidden

\* the next button, the right-hand keys or a click on the right of the slide
nextPressed ==
    /\ lastHandler # "constructor"
    /\ Ran("nextSlide", nextSlide(App))
    /\ UNCHANGED <<hidden, userData, processedData, loading>>

\* the previous button, the left-hand keys or a click on the left of the slide
prevPressed ==
    /\ lastHandler # "constructor"
    /\ Ran("prevSlide", prevSlide(App))
    /\ UNCHANGED <<hidden, userData, processedData, loading>>

\* the play button or the space bar
togglePressed ==
    /\ lastHandler # "constructor"
    /\ Ran("toggleAutoAdvance", toggleAutoAdvance(App))
    /\ UNCHANGED <<hidden, userData, processedData, loading>>

\* the tab is hidden or shown again
handleVisibilityChange ==
    /\ lastHandler # "constructor"
    /\ hidden' = ~hidden
    /\ UNCHANGED <<userData, processedData, loading>>
    /\ Ran("handleVisibilityChange",
           IF hidden' THEN pauseAutoAdvance(App, TRUE)
           ELSE IF isPlaying /\ currentSlide > 0 THEN startAutoAdvance(App)
           ELSE App)

\* the restart button of the finale slide
handleRestart ==
    /\ lastHandler # "constructor"
    /\ currentSlide = totalSlides - 1
    /\ userData' = Null
    /\ processedData' = Null
    /\ Ran("handleRestart",
           pauseAutoAdvance([App EXCEPT !.currentSlide = 0, !.isPlaying = TRUE], FALSE))
    /\ UNCHANGED <<hidden, loading>>

\* a pending timeout runs: every timeout has the same delay, so the one set
\* first is due first
timerFires ==
    /\ timers # {}
    /\ LET t == CHOOSE t \in timers : \A u \in timers : t <= u
       IN  Ran("timer", autoAdvanceCallback([App EXCEPT !.timers = @ \ {t}]))
    /\ UNCHANGED <<hidden, userData, processedData, loading>>

NextSlides ==
    \/ init /\ UNCHANGED <<apiVars, fetchVars, statsVars, processVars>>
    \/ handleFormSubmit /\ UNCHANGED <<apiVars, fetchVars, statsVars, processVars>>
    \/ storyShown /\ UNCHANGED <<apiVars, fetchVars, statsVars, processVars>>
    \/ \E stage \in {"fetchAllData", "processAll", "populateSlides"} :
          submitFailed(stage) /\ UNCHANGED <<apiVars, fetchVars, statsVars, processVars>>
    \/ nextPressed /\ UNCHANGED <<apiVars, fetchVars, statsVars, processVars>>
    \/ prevPressed /\ UNCHANGED <<apiVars, fetchVars, statsVars, processVars>>
    \/ togglePressed /\ UNCHANGED <<apiVars, fetchVars, statsVars, processVars>>
    \/ handleVisibilityChange /\ UNCHANGED <<apiVars, fetchVars, statsVars, processVars>>
    \/ handleRestart /\ UNCHANGED <<apiVars, fetchVars, statsVars, processVars>>
    \/ timerFires /\ UNCHANGED <<apiVars, fetchVars, statsVars, processVars>>

\* the slide deck under every sequence of presses, visibility changes and timeouts
SpecSlides == Init /\ [][NextSlides]_vars

\* at most one auto-advance timeout is pending
AtMostOneTimer == Cardinality(timers) <= 1

\* while auto-advance is paused no timeout changes the slide
PausedSlideStays ==
    [][(~isPlaying /\ lastHandler' = "timer") => currentSlide' = currentSlide]_vars

\* C19: once pauseAutoAdvance (or toggleAutoAdvance while playing) has run, the
\* slide does not change until the user navigates or resumes: no timeout set
\* before the pause advances the slide afterwards, and at most one auto-advance
\* timeout is pending at any time.
C19_PauseStopsAdvance == []AtMostOneTimer /\ PausedSlideStays

----------------------------------------------------------------------------
(* fetchAllData: the order of its requests and of its progress labels *)

\* the place of a request in the order profile, repository pages, event
\* pages, contributions
RequestRank(endpoint) ==
    IF endpoint.path = "user" THEN 0
    ELSE IF endpoint.path = "repos" THEN endpoint.page
    ELSE IF endpoint.path = "events" THEN MaxRepoPages + endpoint.page
    ELSE MaxRepoPages + MaxEventPages + 1

\* the label onProgress gets for the stage a request belongs to
StageLabel(endpoint) ==
    IF endpoint.path = "user" THEN "Fetching profile..."
    ELSE IF endpoint.path = "repos" THEN "Loading repositories..."
    ELSE IF endpoint.path = "events" THEN "Analyzing activity..."
    ELSE "Fetching contributions..."

ProgressLabels ==
    <<"Fetching profile...", "Loading repositories...", "Analyzing activity...",
      "Fetching contributions...", "Processing languages...", "Complete!">>

\* this step calls fetch()
IssuesRequest ==
    /\ req'[FetchCaller] # req[FetchCaller]
    /\ req'[FetchCaller].st \in {"fetch", "cfetch"}

\* C20: within one fetchAllData call the requests are issued one after
\* another, never while one is in flight, in the order profile, repository
\* pages (ascending), event pages (ascending), contributions; the label of a
\* stage is given to onProgress before the stage's first request, and on
\* success the six labels arrived in their fixed order.
C20_RequestsInSequence ==
    /\ [](/\ \A i \in 1..(Len(netLog) - 1) :
                RequestRank(netLog[i]) < RequestRank(netLog[i + 1])
          /\ \A i \in 1..Len(netLog) :
                \E j \in 1..Len(progress) : progress[j] = StageLabel(netLog[i])
          /\ Len(progress) <= Len(ProgressLabels)
          /\ progress = SubSeq(ProgressLabels, 1, Len(progress))
          /\ pc = "returned" => progress = ProgressLabels)
    /\ [][IssuesRequest =>
             /\ req[FetchCaller] = Idle
             /\ netLog' # <<>>
             /\ netLog' = IF pc' = "user" /\ pc # "user"
                          THEN <<netLog'[1]>>
                          ELSE Append(netLog, netLog'[Len(netLog')])
             /\ progress'[Len(progress')] = StageLabel(netLog'[Len(netLog')])]_vars

\* a call that went to the network for the profile, two pages of repositories,
\* two pages of events and the contributions, and returned
C20_Witness ==
    /\ pc = "returned"
    /\ Len(OfPath(netLog, "user")) = 1
    /\ Len(OfPath(netLog, "repos")) >= 2
    /\ Len(OfPath(netLog, "events")) >= 2
    /\ Len(OfPath(netLog, "contributions")) = 1
    /\ Len(netLog) >= 6

----------------------------------------------------------------------------
(* request: one network call, and the cache written on success only *)

\* this step ends caller c's request() with a thrown error
RequestFails(c) ==
    /\ req[c].st # "idle"
    /\ req'[c] = Idle
    /\ out'.kind = "err"

\* this step is a call of request() by c that misses the cache
RequestMisses(c) ==
    /\ req[c] = Idle
    /\ req'[c].st = "fetch"

\* C21 as stated: after a failed request the cache holds no entry for the
\* request's cache key, so the next request for it goes to the network.
C21_NoEntryAfterFailure ==
    [][\A c \in Callers : RequestFails(c) => req[c].key \notin DOMAIN cache']_vars

\* C21 (amended): request calls fetch() once per invocation, at its call;
\* a miss leaves no entry under the request's cache key; the step on which a
\* request fails leaves the whole cache as it is; and an entry appears or
\* changes only on the step on which a request returns a body it fetched, under
\* that request's key. So after a failed request the cache holds no entry for
\* its key unless a request for the same key that overlapped with it succeeded.
C21_CacheWrittenOnSuccessOnly ==
    [][/\ \A c \in Callers :
            /\ (req[c].st # "fetch" /\ req'[c].st = "fetch") => req[c] = Idle
            /\ RequestMisses(c) =>
                  /\ req'[c].key \notin DOMAIN cache'
                  /\ \A k \in DOMAIN cache' : k \in DOMAIN cache /\ cache'[k] = cache[k]
            /\ RequestFails(c) => cache' = cache
       /\ \A k \in DOMAIN cache' :
            (k \notin DOMAIN cache \/ cache'[k] # cache[k]) =>
                /\ out'.kind = "ok"
                /\ out'.net
                /\ \E c \in Callers :
                      /\ req[c].st = "json"
                      /\ req[c].key = k
                      /\ req'[c] = Idle
                      /\ cache'[k] = Entry(out'.data, now)]_vars

\* a request has just failed while the cache holds the body of another
\* endpoint and nothing for the endpoint that failed
C21_Witness ==
    /\ out.kind = "err"
    /\ cache # EmptyCache
    /\ CacheKey(out.endpoint, token) \notin DOMAIN cache

----------------------------------------------------------------------------
(* processHeatmap: the shape of the grid *)

\* the cells of the grid in reading order
RECURSIVE GridCells(_)
GridCells(weeks) == IF weeks = <<>> THEN <<>> ELSE Head(weeks) \o GridCells(Tail(weeks))

\* the structure of the week-rows alone: rows of seven, the last one of one to
\* seven, and the cell at position i of a row has dayOfWeek = i
WeekRowsShape(weeks) ==
    /\ weeks # <<>>
    /\ \A w \in 1..(Len(weeks) - 1) : Len(weeks[w]) = 7
    /\ Len(weeks[Len(weeks)]) \in 1..7
    /\ \A w \in 1..Len(weeks) : \A i \in 1..Len(weeks[w]) : weeks[w][i].dayOfWeek = i - 1

\* C22: processHeatmap yields week-rows in which every row but possibly the last
\* has 7 cells, the first cell is the Sunday on or before 1 January of the
\* target year, consecutive cells are consecutive calendar days, the cell at
\* position i has dayOfWeek = i, and the last cell is 31 December.
C22_WeekRows ==
    processed # Null =>
        LET weeks == processed.heatmapData.weeks
            cells == GridCells(weeks)
        IN  /\ WeekRowsShape(weeks)
            /\ cells[1].date = DateOfDay(0 - Jan1Weekday)
            /\ \A k \in 1..Len(cells) : cells[k].date = DateOfDay(k - 1 - Jan1Weekday)
            /\ cells[Len(cells)].date = IsoDate(year, 12, 31)

----------------------------------------------------------------------------
(* calculateActivityBreakdown: the five categories *)

\* how many events of the list have one of the types
EventsOfTypes(events, types) ==
    Cardinality({ i \in 1..Len(events) : events[i].type \in types })

\* the commits the pushes of the list carry, a push that carries none counted as 1
RECURSIVE PushedCommits(_)
PushedCommits(events) ==
    IF events = <<>> THEN 0
    ELSE PushedCommits(Tail(events))
           + (IF Head(events).type # "PushEvent" THEN 0
              ELSE IF Head(events).commits = 0 THEN 1 ELSE Head(events).commits)

\* three pushes of two commits each and one pull request event, in any order
ThreePushesOnePullRequest(events) ==
    /\ Len(events) = 4
    /\ EventsOfTypes(events, {"PullRequestEvent"}) = 1
    /\ \A i \in 1..4 : events[i].type = "PushEvent" => events[i].commits = 2
    /\ EventsOfTypes(events, {"PushEvent"}) = 3

\* C23: every event is counted in exactly one of the five categories (a push by
\* its commits, 1 when it carries none), total is the sum of the five, and 3
\* pushes of 2 commits plus 1 pull request give commits 6, pullRequests 1, the
\* rest 0 and a commit percentage of 85.7.
C23_FiveCategories ==
    processed # Null =>
        LET b == processed.activityBreakdown
            events == rawData.events
        IN  /\ b.commits = PushedCommits(events)
            /\ b.pullRequests = EventsOfTypes(events, {"PullRequestEvent"})
            /\ b.issues = EventsOfTypes(events, {"IssuesEvent", "IssueCommentEvent"})
            /\ b.reviews = EventsOfTypes(events, {"PullRequestReviewEvent",
                                                  "PullRequestReviewCommentEvent"})
            /\ b.other = EventsOfTypes(events, EventTypes \ {"PushEvent", "PullRequestEvent",
                              "IssuesEvent", "IssueCommentEvent", "PullRequestReviewEvent",
                              "PullRequestReviewCommentEvent"})
            /\ b.total = b.commits + b.pullRequests + b.issues + b.reviews + b.other
            /\ (b.commits - PushedCommits(events)) + b.pullRequests + b.issues + b.reviews
                   + b.other + EventsOfTypes(events, {"PushEvent"}) = Len(events)
            /\ ThreePushesOnePullRequest(events) =>
                  /\ b.commits = 6 /\ b.pullRequests = 1
                  /\ b.issues = 0 /\ b.reviews = 0 /\ b.other = 0
                  /\ b.percentages.commits = 857

\* the example of the statement has been counted
C23_Witness ==
    /\ processed # Null
    /\ ThreePushesOnePullRequest(rawData.events)
    /\ processed.activityBreakdown.commits = 6
    /\ processed.activityBreakdown.total = 7

----------------------------------------------------------------------------
(* DataProcessor.calculateHourlyActivity *)

\* created_at of an event: an instant, given by its weekday (0 = Sunday) and
\* hour in UTC
CreatedAt == [day : {0, 3, 6}, hour : {0, 5, 6, 11, 17, 21, 22, 23}]

\* the lengths of the lists of events given to calculateHourlyActivity
HourlyLens == 0..3

\* new Date(event.created_at) read in local time: getHours() and getDay()
LocalTime(created_at, offset) ==
    LET minutes == created_at.day * 24 * 60 + created_at.hour * 60 + offset + 7 * 24 * 60
    IN  [hour |-> (minutes \div 60) % 24, day |-> (minutes \div (24 * 60)) % 7]

\* the for loop: hours[date.getHours()]++; days[date.getDay()]++
RECURSIVE Tally(_, _, _)
Tally(events, offset, counts) ==
    IF events = <<>> THEN counts
    ELSE LET date == LocalTime(Head(events).created_at, offset)
         IN  Tally(Tail(events), offset,
                   [hours |-> [counts.hours EXCEPT ![date.hour] = @ + 1],
                    days |-> [counts.days EXCEPT ![date.day] = @ + 1]])

\* array.indexOf(Math.max(...array)) of an array indexed from 0
IndexOfMax(array) ==
    CHOOSE i \in DOMAIN array :
        /\ \A j \in DOMAIN array : array[j] <= array[i]
        /\ \A j \in DOMAIN array : j < i => array[j] < array[i]

\* array.slice(from, to).reduce((a, b) => a + b, 0)
RECURSIVE SliceSum(_, _, _)
SliceSum(array, from, to) ==
    IF from >= to THEN 0 ELSE array[from] + SliceSum(array, from + 1, to)

\* timeOfDay whose night starts at 23 h
timeOfDay_nightFrom23(hours) ==
    [morning |-> SliceSum(hours, 6, 12),
     afternoon |-> SliceSum(hours, 12, 18),
     evening |-> SliceSum(hours, 18, 22),
     night |-> SliceSum(hours, 23, 24) + SliceSum(hours, 0, 6)]

timeOfDay(hours) ==
    [morning |-> SliceSum(hours, 6, 12),
     afternoon |-> SliceSum(hours, 12, 18),
     evening |-> SliceSum(hours, 18, 22),
     night |-> SliceSum(hours, 22, 24) + SliceSum(hours, 0, 6)]

dayNames ==
    [d \in 0..6 |-> <<"Sunday", "Monday", "Tuesday", "Wednesday", "Thursday", "Friday",
                      "Saturday">>[d + 1]]

calculateHourlyActivity(events, offset) ==
    LET counts == Tally(events, offset, [hours |-> [h \in 0..23 |-> 0],
                                         days |-> [d \in 0..6 |-> 0]])
        parts == timeOfDay(counts.hours)
        totalTimeOfDay == parts.morning + parts.afternoon + parts.evening + parts.night
    IN  [hours |-> counts.hours,
         days |-> counts.days,
         peakHour |-> IndexOfMax(counts.hours),
         peakHourFormatted |-> formatHour(IndexOfMax(counts.hours)),
         busiestDay |-> dayNames[IndexOfMax(counts.days)],
         busiestDayIndex |-> IndexOfMax(counts.days),
         timeOfDay |-> parts,
         timeOfDayPercentages |->
             [morning |-> Percentage(parts.morning, totalTimeOfDay),
              afternoon |-> Percentage(parts.afternoon, totalTimeOfDay),
              evening |-> Percentage(parts.evening, totalTimeOfDay),
              night |-> Percentage(parts.night, totalTimeOfDay)]]

InitHourly ==
    /\ rawData \in { [events |-> list] :
                       list \in UNION { [1..n -> [created_at : CreatedAt]] : n \in HourlyLens } }
    /\ runtime \in { [offset |-> o] : o \in TimezoneOffsets }
    /\ processed = Null

hourlyOfProcessAll ==
    /\ processed = Null
    /\ processed' = [hourlyActivity |-> calculateHourlyActivity(rawData.events, runtime.offset)]
    /\ UNCHANGED <<rawData, runtime>>

InitHourlyInputs == InitOthers /\ InitHourly

NextHourly == hourlyOfProcessAll /\ UNCHANGED otherVars

\* calculateHourlyActivity on every list of events, in every timezone
SpecHourly == InitHourlyInputs /\ [][NextHourly]_vars

\* how many events fall into the local hours of a set
EventsInHours(events, offset, hs) ==
    Cardinality({ i \in 1..Len(events) : LocalTime(events[i].created_at, offset).hour \in hs })

\* C24: both histograms sum to the number of events, peakHour and
\* busiestDayIndex are the lowest index attaining the maximum of their
\* histogram, and the four time-of-day counts (morning 6-11, afternoon 12-17,
\* evening 18-21, night 22-23 and 0-5) sum to the number of events.
C24_HistogramsCoverEvents ==
    processed # Null =>
        LET a == processed.hourlyActivity
            events == rawData.events
        IN  /\ DOMAIN a.hours = 0..23 /\ DOMAIN a.days = 0..6
            /\ SliceSum(a.hours, 0, 24) = Len(events)
            /\ SliceSum(a.days, 0, 7) = Len(events)
            /\ \A h \in 0..23 : a.hours[h] <= a.hours[a.peakHour]
            /\ \A h \in 0..23 : a.hours[h] = a.hours[a.peakHour] => a.peakHour <= h
            /\ \A d \in 0..6 : a.days[d] <= a.days[a.busiestDayIndex]
            /\ \A d \in 0..6 : a.days[d] = a.days[a.busiestDayIndex] => a.busiestDayIndex <= d
            /\ a.timeOfDay.morning = EventsInHours(events, runtime.offset, 6..11)
            /\ a.timeOfDay.afternoon = EventsInHours(events, runtime.offset, 12..17)
            /\ a.timeOfDay.evening = EventsInHours(events, runtime.offset, 18..21)
            /\ a.timeOfDay.night = EventsInHours(events, runtime.offset, {22, 23} \cup 0..5)
            /\ a.timeOfDay.morning + a.timeOfDay.afternoon + a.timeOfDay.evening
                 + a.timeOfDay.night = Len(events)

\* three events, one at local 22 h, with a tie for the peak hour and for the
\* busiest day that the lower index wins
C24_Witness ==
    /\ processed # Null
    /\ Len(rawData.events) = 3
    /\ processed.hourlyActivity.hours[22] = 1
    /\ processed.hourlyActivity.hours[processed.hourlyActivity.peakHour] = 1
    /\ processed.hourlyActivity.peakHour < 22
    /\ processed.hourlyActivity.days[processed.hourlyActivity.busiestDayIndex] = 1
    /\ processed.hourlyActivity.timeOfDay.night >= 1

----------------------------------------------------------------------------
(* DataProcessor.calculateRepoActivity *)

ActivityEventTypes ==
    { "PushEvent", "PullRequestEvent", "PullRequestReviewEvent",
      "PullRequestReviewCommentEvent", "IssuesEvent", "IssueCommentEvent", "CreateEvent",
      "DeleteEvent", "WatchEvent", "ForkEvent", "ReleaseEvent" }

\* an event, as far as calculateRepoActivity reads it: its repository (Null
\* when the event names none), its type, and the commits a push carries
ActivityEvents ==
    { [repo |-> r, type |-> t, commits |-> n] :
        r \in { Null, Some(FullName("me", "foo")), Some(FullName("other", "foo")),
                Some(FullName("me", "bar")) },
        t \in ActivityEventTypes, n \in {0, 2} }

\* the lengths of the lists of events given to calculateRepoActivity
ActivityLens == 0..2

NoRepoActivity == [commits |-> 0, pullRequests |-> 0, issues |-> 0, total |-> 0]

\* the switch on event.type with a default that adds to total
AddActivity_defaultCounts(a, event) ==
    IF event.type = "PushEvent"
    THEN [a EXCEPT !.commits = @ + CommitCount(event), !.total = @ + CommitCount(event)]
    ELSE IF event.type \in {"PullRequestEvent", "PullRequestReviewEvent",
                            "PullRequestReviewCommentEvent"}
    THEN [a EXCEPT !.pullRequests = @ + 1, !.total = @ + 1]
    ELSE IF event.type \in {"IssuesEvent", "IssueCommentEvent"}
    THEN [a EXCEPT !.issues = @ + 1, !.total = @ + 1]
    ELSE [a EXCEPT !.total = @ + 1]

\* the switch on event.type: it has no default
AddActivity(a, event) ==
    IF event.type = "PushEvent"
    THEN [a EXCEPT !.commits = @ + CommitCount(event), !.total = @ + CommitCount(event)]
    ELSE IF event.type \in {"PullRequestEvent", "PullRequestReviewEvent",
                            "PullRequestReviewCommentEvent"}
    THEN [a EXCEPT !.pullRequests = @ + 1, !.total = @ + 1]
    ELSE IF event.type \in {"IssuesEvent", "IssueCommentEvent"}
    THEN [a EXCEPT !.issues = @ + 1, !.total = @ + 1]
    ELSE IF event.type \in {"CreateEvent", "DeleteEvent", "WatchEvent", "ForkEvent"}
    THEN [a EXCEPT !.total = @ + 1]
    ELSE a

\* the object `activity` after the loop, from the one before it
RECURSIVE calculateRepoActivity(_, _)
calculateRepoActivity(events, activity) ==
    IF events = <<>> THEN activity
    ELSE LET event == Head(events)
         IN  IF ~event.repo.some THEN calculateRepoActivity(Tail(events), activity)
             ELSE LET repoName == ShortName(event.repo.v)
                      before == IF repoName \in DOMAIN activity THEN activity[repoName]
                                ELSE NoRepoActivity
                  IN  calculateRepoActivity(Tail(events),
                          [n \in DOMAIN activity \cup {repoName} |->
                              IF n = repoName THEN AddActivity(before, event)
                              ELSE activity[n]])

InitRepoActivity ==
    /\ rawData \in { [events |-> list] :
                       list \in UNION { [1..n -> ActivityEvents] : n \in ActivityLens } }
    /\ runtime = Null
    /\ processed = Null

repoActivityOfProcessAll ==
    /\ processed = Null
    /\ processed' = [repoActivity |->
                        calculateRepoActivity(rawData.events, [n \in {} |-> NoRepoActivity])]
    /\ UNCHANGED <<rawData, runtime>>

InitRepoActivityInputs == InitOthers /\ InitRepoActivity

NextRepoActivity == repoActivityOfProcessAll /\ UNCHANGED otherVars

\* calculateRepoActivity on every list of events
SpecRepoActivity == InitRepoActivityInputs /\ [][NextRepoActivity]_vars

\* the events of the list that name a repository of the short name
EventsOfRepo(events, shortName) ==
    SelectSeq(events, LAMBDA e : e.repo.some /\ ShortName(e.repo.v) = shortName)

\* the counters that do not depend on how the remaining types are treated
GroupedCounters(events, activity) ==
    /\ DOMAIN activity = { ShortName(events[i].repo.v) :
                             i \in { j \in 1..Len(events) : events[j].repo.some } }
    /\ \A n \in DOMAIN activity :
          LET own == EventsOfRepo(events, n)
          IN  /\ activity[n].commits = PushedCommits(own)
              /\ activity[n].pullRequests =
                     EventsOfTypes(own, {"PullRequestEvent", "PullRequestReviewEvent",
                                         "PullRequestReviewCommentEvent"})
              /\ activity[n].issues = EventsOfTypes(own, {"IssuesEvent", "IssueCommentEvent"})

CountedTypes ==
    {"PullRequestEvent", "PullRequestReviewEvent", "PullRequestReviewCommentEvent",
     "IssuesEvent", "IssueCommentEvent"}

\* C25 as stated: events are grouped by short repository name; a push adds its
\* commits to commits and total, pull-request, review and review-comment events
\* add to pullRequests and total, issue events to issues and total, and an
\* event of every other type adds one unit to total.
C25_EveryOtherTypeAddsOne ==
    processed # Null =>
        /\ GroupedCounters(rawData.events, processed.repoActivity)
        /\ \A n \in DOMAIN processed.repoActivity :
              LET own == EventsOfRepo(rawData.events, n)
              IN  processed.repoActivity[n].total =
                      PushedCommits(own) + EventsOfTypes(own, CountedTypes)
                        + EventsOfTypes(own, ActivityEventTypes \ (CountedTypes \cup {"PushEvent"}))

\* C25 (amended): as stated for pushes, pull-request, review and issue events;
\* of the other types only CreateEvent, DeleteEvent, WatchEvent and ForkEvent
\* add one unit to total, and an event of any further type adds nothing (its
\* repository still gets an entry).
C25_FourOtherTypesAddOne ==
    processed # Null =>
        /\ GroupedCounters(rawData.events, processed.repoActivity)
        /\ \A n \in DOMAIN processed.repoActivity :
              LET own == EventsOfRepo(rawData.events, n)
              IN  processed.repoActivity[n].total =
                      PushedCommits(own) + EventsOfTypes(own, CountedTypes)
                        + EventsOfTypes(own, {"CreateEvent", "DeleteEvent", "WatchEvent",
                                              "ForkEvent"})

\* a release in other/foo and a watch of me/foo: one entry, foo, with total 1
C25_Witness ==
    /\ processed # Null
    /\ Len(rawData.events) = 2
    /\ rawData.events[1].type = "ReleaseEvent"
    /\ rawData.events[1].repo = Some(FullName("other", "foo"))
    /\ rawData.events[2].type = "WatchEvent"
    /\ rawData.events[2].repo = Some(FullName("me", "foo"))
    /\ DOMAIN processed.repoActivity = {ShortName(FullName("me", "foo"))}
    /\ processed.repoActivity[ShortName(FullName("me", "foo"))].total = 1

----------------------------------------------------------------------------
(* getTopContributedRepos: which repositories it returns, and their totals *)

\* the lengths of the lists of events whose totals are checked
ContributedLens == 0..3

InitContributed ==
    /\ rawData \in [events : UNION { [1..n -> TopEvents] : n \in ContributedLens },
                    repos : { <<>> }]
    /\ runtime = Null
    /\ processed = Null

InitContributedInputs == InitOthers /\ InitContributed

\* getTopContributedRepos on every list of up to three events, no owned repositories
SpecContributed == InitContributedInputs /\ [][NextTopRepos]_vars

\* the events of the list in the repository of that full name
EventsIn(events, fullName) == SelectSeq(events, LAMBDA e : e.repo = fullName)

\* how many events of the list have the type and one of the actions
EventsOfKind(events, type, actions) ==
    Cardinality({ i \in 1..Len(events) : events[i].type = type /\ events[i].action \in actions })

\* twice the total the statement gives a repository for its events
WeightedTotal(own) ==
    2 * (2 * PushedCommits(own))
      + 2 * (3 * EventsOfKind(own, "PullRequestEvent", {"opened", "closed"}))
      + 2 * (2 * EventsOfTypes(own, {"PullRequestReviewEvent"}))
      + 2 * EventsOfTypes(own, {"PullRequestReviewCommentEvent"})
      + 2 * EventsOfKind(own, "IssuesEvent", {"opened"})
      + EventsOfTypes(own, {"IssueCommentEvent"})

\* the events give commits > 0 or pullRequests > 0 or reviews > 0
Qualifies(own) ==
    \/ EventsOfTypes(own, {"PushEvent"}) > 0
    \/ EventsOfKind(own, "PullRequestEvent", {"opened", "closed"}) > 0
    \/ EventsOfTypes(own, {"PullRequestReviewEvent", "PullRequestReviewCommentEvent"}) > 0

\* C26: getTopContributedRepos returns exactly the repositories (by full name)
\* whose events give commits > 0 or pullRequests > 0 or reviews > 0, each once,
\* each with total = 2 x commits + 3 x pull requests opened or closed
\* + 2 x reviews + 1 x review comments + 1 x issues opened + 0.5 x issue
\* comments, ordered by non-increasing total.
C26_ContributedRepos ==
    processed # Null =>
        LET top == processed.topContributedRepos
            events == rawData.events
        IN  /\ { top[k].full_name : k \in 1..Len(top) }
                 = { r \in EventRepos : Qualifies(EventsIn(events, r)) }
            /\ \A j, k \in 1..Len(top) : top[j].full_name = top[k].full_name => j = k
            /\ \A k \in 1..Len(top) :
                  /\ top[k].userActivity.total = WeightedTotal(EventsIn(events, top[k].full_name))
                  /\ top[k].score = top[k].userActivity.total
                  /\ top[k].userActivity.commits = PushedCommits(EventsIn(events, top[k].full_name))
            /\ \A k \in 1..(Len(top) - 1) : top[k].score >= top[k + 1].score

\* a repository with a push and an issue comment ranks above one with a
\* review comment, and one with an opened issue only is left out
C26_Witness ==
    /\ processed # Null
    /\ Len(rawData.events) = 3
    /\ Len(processed.topContributedRepos) = 2
    /\ \E i \in 1..3 : rawData.events[i].type = "IssueCommentEvent"
    /\ \E i \in 1..3 : rawData.events[i].type = "PullRequestReviewCommentEvent"
    /\ processed.topContributedRepos[1].score = 5
    /\ processed.topContributedRepos[2].score = 2

----------------------------------------------------------------------------
(* DataProcessor.detectPersona *)

\* the titles of the if statements of detectPersona, in their order
DetectTitles ==
    << "Night Owl", "Early Bird", "Grid Painter", "Community Star", "The Consistent" >>

\* the condition of the k-th if statement, with an Early Bird that lasts to 9 h
DetectCondition_nineIncluded(k, peak, yearStats, followers, stars) ==
    IF k = 1 THEN peak >= 22 \/ peak < 4
    ELSE IF k = 2 THEN peak >= 5 /\ peak <= 9
    ELSE IF k = 3 THEN yearStats.totalContributions >= 1200
    ELSE IF k = 4 THEN followers >= 500 \/ stars >= 1000
    ELSE yearStats.longestStreak >= 30

\* the condition of the k-th if statement
DetectCondition(k, peak, yearStats, followers, stars) ==
    IF k = 1 THEN peak >= 22 \/ peak < 4
    ELSE IF k = 2 THEN peak >= 5 /\ peak < 9
    ELSE IF k = 3 THEN yearStats.totalContributions >= 1200
    ELSE IF k = 4 THEN followers >= 500 \/ stars >= 1000
    ELSE yearStats.longestStreak >= 30

\* the if statements in turn: the first whose condition holds returns
RECURSIVE DetectFrom(_, _, _, _, _)
DetectFrom(k, peak, yearStats, followers, stars) ==
    IF k > Len(DetectTitles) THEN "The Tinkerer"
    ELSE IF DetectCondition(k, peak, yearStats, followers, stars) THEN DetectTitles[k]
    ELSE DetectFrom(k + 1, peak, yearStats, followers, stars)

\* detectPersona(userData, stats), with fetched for its first argument
detectPersona(fetched, yearStats) ==
    [title |-> DetectFrom(1, peakHour(fetched.events), yearStats, fetched.user.followers,
                          SumStars(fetched.repos))]

\* stats, as far as detectPersona reads it
DetectStats == [totalContributions : {1199, 1200}, longestStreak : {29, 30}]

InitDetect ==
    /\ rawData \in [contributions : UNION { [1..n -> PersonaEntries] : n \in 0..1 },
                    events : PersonaEvents,
                    user : [followers : {499, 500}],
                    repos : { <<>>, << [stargazers_count |-> 999] >>,
                              << [stargazers_count |-> 999], [stargazers_count |-> 1] >> },
                    stats : DetectStats]
    /\ runtime \in { [offset |-> o] : o \in TimezoneOffsets }
    /\ processed = Null

\* processAll's persona, and the persona populateGrandFinaleSlide detects
personasOfStory ==
    /\ processed = Null
    /\ processed' = [persona |-> determinePersona(rawData.contributions, rawData.repos,
                                                  rawData.user, rawData.events, runtime.offset),
                     finalePersona |-> detectPersona(rawData, rawData.stats)]
    /\ UNCHANGED <<rawData, runtime>>

InitDetectInputs == InitOthers /\ InitDetect

NextDetect == personasOfStory /\ UNCHANGED otherVars

\* both classifiers on every input
SpecDetect == InitDetectInputs /\ [][NextDetect]_vars

LaterPersonas ==
    { "Weekend Warrior", "Grid Painter", "The Consistent", "Community Star", "The Tinkerer" }

\* C29: with an empty event list calculateHourlyActivity reports peakHour = 0,
\* so determinePersona and detectPersona both return Night Owl whatever the
\* contributions, followers and stars are; The Tinkerer and every persona after
\* the second are returned only for a user with at least one event.
C29_NoEventsNightOwl ==
    processed # Null =>
        /\ rawData.events = <<>> =>
              /\ \A o \in TimezoneOffsets : calculateHourlyActivity(<<>>, o).peakHour = 0
              /\ processed.persona.stats.peakHour = formatHour(0)
              /\ processed.persona.name = "Night Owl"
              /\ processed.finalePersona.title = "Night Owl"
        /\ processed.persona.name \in LaterPersonas => rawData.events # <<>>
        /\ processed.finalePersona.title \in LaterPersonas => rawData.events # <<>>

\* a user without events, with 1200 contributions, 500 followers and 1000 stars,
\* is a Night Owl for both classifiers
C29_Witness ==
    /\ processed # Null
    /\ rawData.events = <<>>
    /\ processed.persona.stats.totalContribs = 1200
    /\ rawData.stats.totalContributions = 1200
    /\ rawData.user.followers = 500
    /\ SumStars(rawData.repos) = 1000
    /\ processed.persona.name = "Night Owl"
    /\ processed.finalePersona.title = "Night Owl"

----------------------------------------------------------------------------
(* request and setToken interleaved *)

\* this step is a call of request() that returns a body from the cache
ServedFromCache ==
    /\ steps' = steps + 1
    /\ out'.kind = "ok"
    /\ ~out'.net

\* C28: a body that request returns from the cache was fetched with the token
\* that is current at the time of the return (with no token when none is set),
\* also when setToken runs while a request is awaiting its response.
C28_CachedBodyOfCurrentToken ==
    [][ServedFromCache =>
          LET key == CacheKey(out'.endpoint, token)
          IN  /\ Has(fetchedWith, key)
              /\ SentToken(fetchedWith[key]) = SentToken(token)]_vars

----------------------------------------------------------------------------
(* GitStoryApp: the slide shown and the data behind it *)

\* once init() has counted the slides, currentSlide is the index of a slide
SlideInRange ==
    lastHandler # "constructor" => currentSlide \in 0..(totalSlides - 1)

\* C30: currentSlide stays within 0..totalSlides-1, and a story slide (index
\* >= 1) is the current slide only while userData and processedData are
\* loaded: no sequence of key presses, clicks, toggles, timeouts, form
\* submissions and restarts reaches currentSlide >= 1 with userData = null.
C30_StorySlideHasData ==
    /\ SlideInRange
    /\ currentSlide >= 1 => (userData # Null /\ processedData # Null)

====
